---- MODULE Spec2Model ----
(***************************************************************************)
(* A model of the context-engineering research agent's core:               *)
(*   - DockerSandboxBackend.execute and its output cap                      *)
(*     (backends/docker_sandbox.py),                                        *)
(*   - the DockerSandboxSession lifecycle over a container runtime          *)
(*     (backends/docker_session.py),                                        *)
(*   - ContextReductionStrategy: compaction, summarization, reduce_context  *)
(*     (context_strategies/reduction.py),                                   *)
(*   - ContextOffloadingStrategy.process_tool_result                        *)
(*     (context_strategies/offloading.py),                                  *)
(*   - ContextCachingStrategy.apply_caching                                 *)
(*     (context_strategies/caching.py),                                     *)
(*   - list_skills (skills/load.py).                                        *)
(* Each subsystem has its own specifications (SpecExec, SpecSession,        *)
(* SpecReduce, SpecOffload, SpecTransfer, SpecCaching, SpecSkills, ...)     *)
(* over its own variables; the variables of the other subsystems stay at    *)
(* their idle values.                                                       *)
(***************************************************************************)
EXTENDS Integers, Sequences, FiniteSets, TLC

VARIABLES
    exEnv,      \* what the container runtime does for the next execute()
    exResp,     \* the ExecuteResponse execute() returned (NoResp before)
    exPc,       \* "call" before execute(), "done" after
    \* ---- DockerSandboxSession and the container runtime ----
    container,      \* self._container: None or the id of the container held
    backend,        \* self._backend: None or the container_id of the cached backend
    docker_client,  \* self._docker_client is set
    docker,         \* the runtime: container id -> "absent" | "running" | "exited"
    dirs,           \* container id -> the workspace directories exist in it
    created,        \* the number of containers the runtime has created
    frames,         \* the suspended start() and stop() calls
    held,           \* container ids of the backends get_backend() has handed out
    everStopped,    \* a stop() that found a container has returned
    lastCall,       \* the last start()/stop()/get_backend()/execute() that ended
    \* ---- ContextReductionStrategy ----
    rMsgs,      \* the message list passed in
    rCfg,       \* self.config
    rModel,     \* self._summarization_model and what it does when invoked
    rRet,       \* what the call returned (or that it raised)
    rPc,        \* "call" before the call, then the operation that ran
    \* ---- ContextOffloadingStrategy ----
    oCfg,       \* self.config
    oFactory,   \* self._backend_factory: "none", or the kind of backend it returns
    oFs,        \* the backend's files: path -> content
    oMsg,       \* the tool result of the last call
    oRet,       \* what the last call returned, and the writes it made
    oApplied,   \* the update of the returned Command has been applied
    oCalls,     \* the number of calls made
    oPc,        \* "idle", then the operation that ran last
    \* ---- DockerSandboxBackend.upload_files / download_files ----
    xFs,        \* the container's files: absolute path -> file or directory
    xBatch,     \* the batch passed in: items [path, content]
    xEnv,       \* what the runtime does for each item
    xRet,       \* the responses returned, and the items the loop reached
    xPc,        \* "call" before the call, then the operation that ran
    \* ---- ContextOffloadingStrategy._sanitize_tool_call_id ----
    sId,        \* the tool-call id passed in
    sOut,       \* the string returned
    sPc,        \* "call" before the call, "sanitized" after
    \* ---- ContextCachingStrategy.apply_caching ----
    cMsgs,      \* the messages passed in
    cCfg,       \* self.config
    cProv,      \* the classification of the model: provider and sub_provider
    cRet,       \* what the call returned: the messages and the CachingResult
    cPc,        \* "call" before the call, "cached" after
    \* ---- skills/load.py list_skills ----
    kUser,      \* the skill directories of user_skills_dir, as iterdir lists them
    kProject,   \* the skill directories of project_skills_dir
    kRet,       \* the list returned, and the SKILL.md paths warned about
    kPc         \* "call" before the call, "listed" after

execVars == <<exEnv, exResp, exPc>>
sessVars == <<container, backend, docker_client, docker, dirs, created, frames,
              held, everStopped, lastCall>>

redVars == <<rMsgs, rCfg, rModel, rRet, rPc>>

offVars == <<oCfg, oFactory, oFs, oMsg, oRet, oApplied, oCalls, oPc>>

xferVars == <<xFs, xBatch, xEnv, xRet, xPc>>

sanVars == <<sId, sOut, sPc>>

cacheVars == <<cMsgs, cCfg, cProv, cRet, cPc>>

skillVars == <<kUser, kProject, kRet, kPc>>

vars == <<execVars, sessVars, redVars, offVars, xferVars, sanVars, cacheVars, skillVars>>

None == "None"

(***************************************************************************)
(* Process output is up to 100 000 characters and more, so a text is kept  *)
(* run-length encoded: a sequence of runs [c |-> character, n |-> count],  *)
(* n >= 1, adjacent runs of different characters.  Every Python string has *)
(* exactly one such encoding, so equality of texts is equality of strings. *)
(***************************************************************************)
\* the characters of runs lo..hi of t
RECURSIVE RunsLen(_, _, _)
RunsLen(t, lo, hi) ==
    IF lo > hi THEN 0
    ELSE IF lo = hi THEN t[lo].n
    ELSE RunsLen(t, lo, (lo + hi) \div 2) + RunsLen(t, (lo + hi) \div 2 + 1, hi)

\* len(t)
TLen(t) == RunsLen(t, 1, Len(t))

\* t[:k]
RECURSIVE TTake(_, _)
TTake(t, k) ==
    IF k <= 0 \/ t = <<>> THEN <<>>
    ELSE IF t[1].n <= k THEN <<t[1]>> \o TTake(Tail(t), k - t[1].n)
    ELSE <<[c |-> t[1].c, n |-> k]>>

\* a + b
TCat(a, b) ==
    IF a = <<>> THEN b
    ELSE IF b = <<>> THEN a
    ELSE IF a[Len(a)].c = b[1].c
         THEN SubSeq(a, 1, Len(a) - 1)
                \o <<[c |-> b[1].c, n |-> a[Len(a)].n + b[1].n]>>
                \o Tail(b)
         ELSE a \o b

\* the text of a literal, given character by character
Lit(chars) ==
    LET starts == SelectSeq([i \in 1..Len(chars) |-> i],
                            LAMBDA i : i = 1 \/ chars[i] # chars[i - 1])
    IN  [k \in 1..Len(starts) |->
            [c |-> chars[starts[k]],
             n |-> (IF k < Len(starts) THEN starts[k + 1] ELSE Len(chars) + 1)
                   - starts[k]]]

\* n copies of character c
Rep(c, n) == IF n <= 0 THEN <<>> ELSE <<[c |-> c, n |-> n]>>

(***************************************************************************)
(* DockerSandboxBackend.execute                                            *)
(***************************************************************************)
OUTPUT_CAP == 100000

TRUNCATION_SENTINEL ==
    Lit(<<"\n", "[", "U+CD9C", "U+B825", "U+C774", " ", "U+C798", "U+B838", "U+C2B5", "U+B2C8", "U+B2E4", ".", ".", ".", "]">>)

EXEC_ERROR_PREFIX ==
    Lit(<<"D", "o", "c", "k", "e", "r", " ", "U+C2E4", "U+D589", " ", "U+C624", "U+B958", ":", " ">>)

LOOKUP_ERROR_PREFIX ==
    Lit(<<"U+CEE8", "U+D14C", "U+C774", "U+B108", " ", "U+C870", "U+D68C", " ", "U+C2E4", "U+D328", ":", " ">>)

\* bytes.decode("utf-8", errors="replace"): the raw output is a text of
\* encoded units; a unit that is no valid UTF-8 decodes to U+FFFD, every
\* other unit to its character.
INVALID_BYTE == "\\xff"
REPLACEMENT_CHAR == "U+FFFD"

RECURSIVE Decode(_)
Decode(raw) ==
    IF raw = <<>> THEN <<>>
    ELSE TCat(<<[c |-> IF raw[1].c = INVALID_BYTE THEN REPLACEMENT_CHAR ELSE raw[1].c,
                 n |-> raw[1].n]>>,
              Decode(Tail(raw)))

\* _truncate_output(output) -> (output, truncated)
TruncateOutputOffByOne(output) ==
    IF TLen(output) < OUTPUT_CAP
    THEN <<output, FALSE>>
    ELSE <<TCat(TTake(output, OUTPUT_CAP), TRUNCATION_SENTINEL), TRUE>>

_truncate_output(output) ==
    IF TLen(output) <= OUTPUT_CAP
    THEN <<output, FALSE>>
    ELSE <<TCat(TTake(output, OUTPUT_CAP), TRUNCATION_SENTINEL), TRUE>>

ExecuteResponse(output, exit_code, truncated) ==
    [output |-> output, exit_code |-> exit_code, truncated |-> truncated]

\* no response yet
NoResp == [output |-> <<>>, exit_code |-> 0, truncated |-> FALSE]

\* execute without the except clause of lines 116-117: the exception of the
\* runtime leaves execute
ExecuteLettingErrorsOut(env) ==
    IF env.outcome = "ran"
    THEN LET output == IF env.is_bytes THEN Decode(env.raw)
                       ELSE Lit(<<"N", "o", "n", "e">>)
             t == _truncate_output(output)
         IN  ExecuteResponse(t[1], env.exit_code, t[2])
    ELSE [raised |-> TRUE, message |-> env.msg]

\* execute(command) under the runtime behaviour env:
\*   env.outcome = "lookup_raises": client.containers.get raises (container
\*       not found, daemon unreachable); _get_container wraps it;
\*   env.outcome = "exec_raises": container.exec_run raises;
\*   env.outcome = "ran": the command ran; env.raw is exec_result.output
\*       (bytes, or None when env.is_bytes is FALSE) and env.exit_code its code.
execute(env) ==
    IF env.outcome = "ran"
    THEN LET output == IF env.is_bytes THEN Decode(env.raw)
                       ELSE Lit(<<"N", "o", "n", "e">>)
             t == _truncate_output(output)
         IN  ExecuteResponse(t[1], env.exit_code, t[2])
    ELSE IF env.outcome = "exec_raises"
    THEN ExecuteResponse(TCat(EXEC_ERROR_PREFIX, env.msg), 1, FALSE)
    ELSE ExecuteResponse(
            TCat(EXEC_ERROR_PREFIX, TCat(LOOKUP_ERROR_PREFIX, env.msg)), 1, FALSE)

(***************************************************************************)
(* ContextReductionStrategy                                                *)
(*                                                                         *)
(* A message is [type, content, tool_calls, tool_call_id].  A content is   *)
(* [kind |-> "str", val |-> the string] or [kind |-> "list", val |-> the   *)
(* text blocks]; a string is the sequence of its characters.               *)
(***************************************************************************)
StrContent(s) == [kind |-> "str", val |-> s]
ListContent(blocks) == [kind |-> "list", val |-> blocks]

SystemMessage(content) ==
    [type |-> "system", content |-> content, tool_calls |-> <<>>, tool_call_id |-> <<>>]
HumanMessage(content) ==
    [type |-> "human", content |-> content, tool_calls |-> <<>>, tool_call_id |-> <<>>]
AIMessage(content, tool_calls) ==
    [type |-> "ai", content |-> content, tool_calls |-> tool_calls, tool_call_id |-> <<>>]
ToolMessage(content, tool_call_id) ==
    [type |-> "tool", content |-> content, tool_calls |-> <<>>,
     tool_call_id |-> tool_call_id]

\* ", ".join(repr(b) for b in blocks), each block a str
RECURSIVE JoinRepr(_)
JoinRepr(blocks) ==
    IF blocks = <<>> THEN <<>>
    ELSE <<"'">> \o blocks[1] \o <<"'">>
         \o (IF Len(blocks) > 1 THEN <<",", " ">> ELSE <<>>)
         \o JoinRepr(Tail(blocks))

\* str(msg.content)
Str(content) ==
    IF content.kind = "str" THEN content.val
    ELSE <<"[">> \o JoinRepr(content.val) \o <<"]">>

\* msg.text: the string itself, or the text blocks joined
RECURSIVE JoinBlocks(_)
JoinBlocks(blocks) ==
    IF blocks = <<>> THEN <<>> ELSE blocks[1] \o JoinBlocks(Tail(blocks))

MsgText(msg) ==
    IF msg.content.kind = "str" THEN msg.content.val ELSE JoinBlocks(msg.content.val)

Whitespace == {" ", "\n", "\t"}

\* bool(text.strip())
StripNonEmpty(text) == \E i \in 1..Len(text) : text[i] \notin Whitespace

\* sum(len(str(msg.content)) for msg in messages)
RECURSIVE TotalChars(_)
TotalChars(messages) ==
    IF messages = <<>> THEN 0
    ELSE Len(Str(messages[1].content)) + TotalChars(Tail(messages))

_estimate_tokens(messages, config) == TotalChars(messages) \div config.chars_per_token

\* usage_ratio > context_threshold, with usage_ratio = estimated_tokens /
\* model_context_window and the threshold the fraction num / den (both
\* positive): compared exactly by cross-multiplication.
ShouldReduceAtThreshold(messages, config) ==
    _estimate_tokens(messages, config) * config.context_threshold.den
        >= config.context_threshold.num * config.model_context_window

_should_reduce(messages, config) ==
    _estimate_tokens(messages, config) * config.context_threshold.den
        > config.context_threshold.num * config.model_context_window

ReductionResult(was_reduced, technique_used, original, reduced, saved) ==
    [was_reduced |-> was_reduced, technique_used |-> technique_used,
     original_message_count |-> original, reduced_message_count |-> reduced,
     estimated_tokens_saved |-> saved]

\* ReductionResult(was_reduced=False)
NotReduced == ReductionResult(FALSE, None, 0, 0, 0)

\* CompactOne with the age test off by one (age < threshold)
CompactOneOffByOne(msg, age, config) ==
    IF age < config.compaction_age_threshold THEN <<msg>>
    ELSE IF msg.type = "ai"
    THEN IF msg.tool_calls # <<>>
         THEN IF StripNonEmpty(MsgText(msg))
              THEN <<AIMessage(StrContent(MsgText(msg)), <<>>)>>
              ELSE <<>>
         ELSE <<msg>>
    ELSE IF msg.type \in {"human", "system"} THEN <<msg>>
    ELSE <<>>

\* CompactOne testing the text for being non-empty, not for holding a
\* character that is not whitespace
CompactOneNonEmpty(msg, age, config) ==
    IF age <= config.compaction_age_threshold THEN <<msg>>
    ELSE IF msg.type = "ai"
    THEN IF msg.tool_calls # <<>>
         THEN IF MsgText(msg) # <<>>
              THEN <<AIMessage(StrContent(MsgText(msg)), <<>>)>>
              ELSE <<>>
         ELSE <<msg>>
    ELSE IF msg.type \in {"human", "system"} THEN <<msg>>
    ELSE <<>>

\* what one pass of the loop of apply_compaction appends for message msg of
\* the given age (lines 156-172): nothing or one message
CompactOne(msg, age, config) ==
    IF age <= config.compaction_age_threshold THEN <<msg>>
    ELSE IF msg.type = "ai"
    THEN IF msg.tool_calls # <<>>
         THEN IF StripNonEmpty(MsgText(msg))
              THEN <<AIMessage(StrContent(MsgText(msg)), <<>>)>>
              ELSE <<>>
         ELSE <<msg>>
    ELSE IF msg.type \in {"human", "system"} THEN <<msg>>
    ELSE <<>>

\* the loop of apply_compaction inserting at the front instead of appending
RECURSIVE CompactLoopPrepending(_, _, _)
CompactLoopPrepending(messages, i, config) ==
    IF i > Len(messages) THEN <<>>
    ELSE CompactLoopPrepending(messages, i + 1, config)
         \o (IF Len(messages) - (i - 1) <= config.compaction_age_threshold
             THEN <<messages[i]>>
             ELSE IF messages[i].type = "tool" THEN <<>>
             ELSE IF messages[i].type = "ai" /\ messages[i].tool_calls # <<>>
             THEN (IF StripNonEmpty(MsgText(messages[i]))
                   THEN <<AIMessage(StrContent(MsgText(messages[i])), <<>>)>>
                   ELSE <<>>)
             ELSE <<messages[i]>>)

\* the loop of apply_compaction from index i on
RECURSIVE CompactLoop(_, _, _)
CompactLoop(messages, i, config) ==
    IF i > Len(messages) THEN <<>>
    ELSE CompactOne(messages[i], Len(messages) - (i - 1), config)
         \o CompactLoop(messages, i + 1, config)

Outcome(out, result, invoked, raised) ==
    [out |-> out, result |-> result, invoked |-> invoked, raised |-> raised]

\* apply_compaction(messages) -> (compacted, result)
apply_compaction(messages, config) ==
    LET compacted == CompactLoop(messages, 1, config)
    IN  Outcome(compacted,
                ReductionResult(Len(compacted) < Len(messages), "compaction",
                                Len(messages), Len(compacted),
                                _estimate_tokens(messages, config)
                                    - _estimate_tokens(compacted, config)),
                <<>>, FALSE)

SUMMARY_MARKER ==
    <<"[", "U+C774", "U+C804", " ", "U+B300", "U+D654", " ", "U+C694", "U+C57D", "]", "\n">>

\* messages[:-keep_count] and messages[-keep_count:] as Python slices them
\* (keep_count >= 0; -0 is 0)
SliceHead(messages, keep_count) ==
    IF keep_count = 0 THEN <<>>
    ELSE SubSeq(messages, 1, Len(messages) - keep_count)

SliceTail(messages, keep_count) ==
    IF keep_count = 0 THEN messages
    ELSE SubSeq(messages, Len(messages) - keep_count + 1, Len(messages))

\* apply_summarization(messages) -> (summarized, result), with the model
\* bound to the strategy: model.bound is FALSE for None; otherwise invoke
\* raises (model.raises) or returns a response whose content is model.digest.
\* invoked lists the transcripts the model was invoked on.
apply_summarization(messages, config, model) ==
    IF ~model.bound THEN Outcome(messages, NotReduced, <<>>, FALSE)
    ELSE
    LET keep_count == config.min_messages_to_keep
        messages_to_summarize ==
            IF Len(messages) > keep_count THEN SliceHead(messages, keep_count) ELSE <<>>
        recent_messages ==
            IF Len(messages) > keep_count THEN SliceTail(messages, keep_count)
            ELSE messages
        summary_message == SystemMessage(StrContent(SUMMARY_MARKER \o model.digest))
        summarized == <<summary_message>> \o recent_messages
    IN  IF messages_to_summarize = <<>>
        THEN Outcome(messages, NotReduced, <<>>, FALSE)
        ELSE IF model.raises
        THEN Outcome(<<>>, NotReduced, <<messages_to_summarize>>, TRUE)
        ELSE Outcome(summarized,
                     ReductionResult(TRUE, "summarization", Len(messages),
                                     Len(summarized),
                                     _estimate_tokens(messages, config)
                                         - _estimate_tokens(summarized, config)),
                     <<messages_to_summarize>>, FALSE)

\* reduce_context handing the messages it was given, not the compacted
\* ones, to apply_summarization
ReduceContextSummarizingOriginal(messages, config, model) ==
    IF ~_should_reduce(messages, config)
    THEN Outcome(messages, NotReduced, <<>>, FALSE)
    ELSE LET c == apply_compaction(messages, config)
         IN  IF ~_should_reduce(c.out, config) THEN c
             ELSE apply_summarization(messages, config, model)

\* reduce_context going on to summarization without the second
\* _should_reduce test
ReduceContextAlwaysSummarizing(messages, config, model) ==
    IF ~_should_reduce(messages, config)
    THEN Outcome(messages, NotReduced, <<>>, FALSE)
    ELSE apply_summarization(apply_compaction(messages, config).out, config, model)

\* reduce_context(messages) -> (messages, result)
reduce_context(messages, config, model) ==
    IF ~_should_reduce(messages, config)
    THEN Outcome(messages, NotReduced, <<>>, FALSE)
    ELSE LET c == apply_compaction(messages, config)
         IN  IF ~_should_reduce(c.out, config) THEN c
             ELSE apply_summarization(c.out, config, model)

\* wrap_model_call(request, handler) and awrap_model_call, request.state
\* holding messages: out is the message list of the request the handler is
\* called with; raised when reduce_context raised and the handler was never
\* called.
wrap_model_call(messages, config, model) ==
    LET r == reduce_context(messages, config, model)
    IN  IF r.raised THEN r
        ELSE Outcome(IF r.result.was_reduced THEN r.out ELSE messages,
                     r.result, r.invoked, FALSE)

\* ---- the inputs of SpecReduce ----
MaxMsgs == 3        \* histories have at most this many messages
MaxAge == 2         \* compaction_age_threshold ranges over 0..MaxAge
MaxKeep == 2        \* min_messages_to_keep ranges over 0..MaxKeep

ToolCall(id) == [id |-> id, name |-> "search"]

CallId == <<"c", "1">>

Palette ==
    { SystemMessage(StrContent(<<"s">>)),
      HumanMessage(StrContent(<<"h", "h">>)),
      AIMessage(StrContent(<<"a", "a">>), <<>>),
      AIMessage(StrContent(<<"a", "t">>), <<ToolCall(CallId)>>),
      AIMessage(StrContent(<<" ">>), <<ToolCall(CallId)>>),
      AIMessage(ListContent(<< <<"b">> >>), <<ToolCall(CallId)>>),
      ToolMessage(StrContent(<<"r", "r", "r">>), CallId) }

Histories == UNION {[1..n -> Palette] : n \in 0..MaxMsgs}

\* ReductionConfig: context_threshold = num / den
Configs ==
    [context_threshold : {[num |-> 1, den |-> 2]},
     model_context_window : {4},
     compaction_age_threshold : 0..MaxAge,
     min_messages_to_keep : 0..MaxKeep,
     chars_per_token : {1, 2}]

NoModel == [bound |-> FALSE, raises |-> FALSE, digest |-> <<>>]
RaisingModel == [bound |-> TRUE, raises |-> TRUE, digest |-> <<>>]

Models ==
    {NoModel, RaisingModel}
    \cup [bound : {TRUE}, raises : {FALSE}, digest : {<<>>, <<"d">>}]

NoOutcome == Outcome(<<>>, NotReduced, <<>>, FALSE)

ReduceInit ==
    /\ rMsgs \in Histories
    /\ rCfg \in Configs
    /\ rModel \in Models
    /\ rRet = NoOutcome
    /\ rPc = "call"

ReduceIdle ==
    /\ rMsgs = <<>> /\ rCfg = None /\ rModel = NoModel
    /\ rRet = NoOutcome /\ rPc = "idle"

\* ---- histories of Human / AI-with-tool-call / ToolResult triples ----
MaxTriples == 3             \* small histories have 0..MaxTriples triples
STATED_TRIPLES == 20
DEFAULT_AGE_THRESHOLD == 10

Digit(n) == <<"0", "1", "2", "3", "4", "5", "6", "7", "8", "9">>[(n % 10) + 1]
Tag(c, i) == <<c, Digit(i \div 10), Digit(i)>>

Triple(i, variant) ==
    << HumanMessage(StrContent(Tag("q", i))),
       AIMessage(IF variant = "text" THEN StrContent(Tag("a", i))
                 ELSE IF variant = "empty" THEN StrContent(<<>>)
                 ELSE ListContent(<<Tag("a", i)>>),
                 <<ToolCall(Tag("c", i))>>),
       ToolMessage(StrContent(Tag("r", i)), Tag("c", i)) >>

RECURSIVE TripleHistory(_, _)
TripleHistory(n, variant) ==
    IF n = 0 THEN <<>>
    ELSE TripleHistory(n - 1, variant) \o Triple(n - 1, variant)

TripleHistories ==
    {TripleHistory(n, v) : n \in (0..MaxTriples) \cup {STATED_TRIPLES},
                           v \in {"text", "empty", "list"}}

TripleConfigs ==
    [context_threshold : {[num |-> 1, den |-> 2]},
     model_context_window : {4},
     compaction_age_threshold : (0..(3 * MaxTriples)) \cup {DEFAULT_AGE_THRESHOLD},
     min_messages_to_keep : {0, 5},
     chars_per_token : {1, 4}]

TriplesInit ==
    /\ rMsgs \in TripleHistories
    /\ rCfg \in TripleConfigs
    /\ rModel \in Models
    /\ rRet = NoOutcome
    /\ rPc = "call"

(***************************************************************************)
(* ContextOffloadingStrategy                                               *)
(*                                                                         *)
(* A tool result is a ToolMessage whose content is a str or a list of str  *)
(* blocks; here a str is a run-length encoded text, because the default    *)
(* limit is crossed at 80 004 characters.  A tool-call id and a file path  *)
(* are sequences of characters.                                            *)
(***************************************************************************)
DEFAULT_TOKEN_LIMIT == 20000
DEFAULT_PREVIEW_LINES == 10
DEFAULT_CHARS_PER_TOKEN == 4
PREVIEW_LINE_CAP == 1000
PREVIEW_NUMBER_WIDTH == 5

DEFAULT_EVICTION_PREFIX ==
    <<"/", "l", "a", "r", "g", "e", "_", "t", "o", "o", "l", "_",
      "r", "e", "s", "u", "l", "t", "s">>

OffloadingConfig(token_limit, path_prefix, preview_lines, chars_per_token) ==
    [token_limit_before_evict |-> token_limit,
     eviction_path_prefix |-> path_prefix,
     preview_lines |-> preview_lines,
     chars_per_token |-> chars_per_token]

\* an Optional value: Some(x), or Nothing for None
Some(x) == [some |-> TRUE, val |-> x]
Nothing == [some |-> FALSE, val |-> <<>>]

OffloadingResult(was_offloaded, original_size, file_path, preview) ==
    [was_offloaded |-> was_offloaded, original_size |-> original_size,
     file_path |-> file_path, preview |-> preview]

\* repr(s) of a str without quotes or backslashes: the newline is escaped
RECURSIVE EscapedNewlines(_)
EscapedNewlines(n) ==
    IF n = 0 THEN <<>>
    ELSE <<[c |-> "\\", n |-> 1], [c |-> "n", n |-> 1]>> \o EscapedNewlines(n - 1)

RECURSIVE Escaped(_)
Escaped(t) ==
    IF t = <<>> THEN <<>>
    ELSE TCat(IF t[1].c = "\n" THEN EscapedNewlines(t[1].n) ELSE <<t[1]>>,
              Escaped(Tail(t)))

TextRepr(t) == TCat(Rep("'", 1), TCat(Escaped(t), Rep("'", 1)))

RECURSIVE TextJoinRepr(_)
TextJoinRepr(blocks) ==
    IF blocks = <<>> THEN <<>>
    ELSE TCat(TextRepr(blocks[1]),
              TCat(IF Len(blocks) > 1 THEN Lit(<<",", " ">>) ELSE <<>>,
                   TextJoinRepr(Tail(blocks))))

\* tool_result.content if it is a str, else str(tool_result.content)
ContentStr(content) ==
    IF content.kind = "str" THEN content.val
    ELSE TCat(Rep("[", 1), TCat(TextJoinRepr(content.val), Rep("]", 1)))

\* ContextOffloadingStrategy._estimate_tokens
Offload_estimate_tokens(content, config) == TLen(content) \div config.chars_per_token

\* _should_offload comparing by >= (offloading at the limit already)
ShouldOffloadAtLimit(content, config) ==
    Offload_estimate_tokens(content, config) >= config.token_limit_before_evict

\* _should_offload
_should_offload(content, config) ==
    Offload_estimate_tokens(content, config) > config.token_limit_before_evict

\* content.split("\n"): the pieces between newlines, the last one included
RECURSIVE SplitNewlines(_)
SplitNewlines(t) ==
    IF t = <<>> THEN << <<>> >>
    ELSE LET rest == SplitNewlines(Tail(t))
         IN  IF t[1].c = "\n"
             THEN [i \in 1..t[1].n |-> <<>>] \o rest
             ELSE <<TCat(<<t[1]>>, rest[1])>> \o Tail(rest)

\* content.splitlines(), the newline being the only line boundary in the
\* texts modelled: no line after a final newline, no line in the empty text
splitlines(t) ==
    LET pieces == SplitNewlines(t)
    IN  IF pieces[Len(pieces)] = <<>> THEN SubSeq(pieces, 1, Len(pieces) - 1)
        ELSE pieces

\* str(n) for n >= 0
RECURSIVE Decimal(_)
Decimal(n) == IF n < 10 THEN <<Digit(n)>> ELSE Decimal(n \div 10) \o <<Digit(n)>>

\* f"{n:5}": right-aligned in five columns, longer numbers in full
PadNumber(n) ==
    LET d == Decimal(n)
    IN  Lit([i \in 1..(IF Len(d) < PREVIEW_NUMBER_WIDTH
                       THEN PREVIEW_NUMBER_WIDTH - Len(d) ELSE 0) |-> " "] \o d)

\* "\n".join(f"{i + 1:5}\t{line}" ...) from line i on
RECURSIVE JoinNumbered(_, _)
JoinNumbered(lines, i) ==
    IF i > Len(lines) THEN <<>>
    ELSE TCat(PadNumber(i),
         TCat(Rep("\t", 1),
         TCat(lines[i],
         TCat(IF i < Len(lines) THEN Rep("\n", 1) ELSE <<>>,
              JoinNumbered(lines, i + 1)))))

\* _create_preview
_create_preview(content, config) ==
    LET all == splitlines(content)
        lines == SubSeq(all, 1, IF config.preview_lines < Len(all)
                                THEN config.preview_lines ELSE Len(all))
        truncated_lines == [i \in 1..Len(lines) |-> TTake(lines[i], PREVIEW_LINE_CAP)]
    IN  JoinNumbered(truncated_lines, 1)

OFFLOAD_MESSAGE_HEAD ==
    Lit(<<"U+B3C4", "U+AD6C", " ", "U+ACB0", "U+ACFC", "U+AC00", " ",
          "U+B108", "U+BB34", " ", "U+CEE4", "U+C11C", " ", "U+D30C",
          "U+C77C", "U+C2DC", "U+C2A4", "U+D15C", "U+C5D0", " ", "U+C800",
          "U+C7A5", "U+B418", "U+C5C8", "U+C2B5", "U+B2C8", "U+B2E4", ".",
          "\n", "\n", "U+ACBD", "U+B85C", ":", " ">>)

OFFLOAD_MESSAGE_BODY ==
    Lit(<<"\n", "\n", "r", "e", "a", "d", "_", "f", "i", "l", "e", " ",
          "U+B3C4", "U+AD6C", "U+B85C", " ", "U+ACB0", "U+ACFC", "U+B97C",
          " ", "U+C77D", "U+C744", " ", "U+C218", " ", "U+C788", "U+C2B5",
          "U+B2C8", "U+B2E4", ".", "\n", "U+B300", "U+C6A9", "U+B7C9", " ",
          "U+ACB0", "U+ACFC", "U+C758", " ", "U+ACBD", "U+C6B0", " ", "o",
          "f", "f", "s", "e", "t", "U+ACFC", " ", "l", "i", "m", "i", "t",
          " ", "U+D30C", "U+B77C", "U+BBF8", "U+D130", "U+B85C", " ",
          "U+BD80", "U+BD84", " ", "U+C77D", "U+AE30", "U+B97C", " ",
          "U+AD8C", "U+C7A5", "U+D569", "U+B2C8", "U+B2E4", ".", "\n", "\n",
          "U+CC98", "U+C74C", " ">>)

OFFLOAD_MESSAGE_PREVIEW ==
    Lit(<<"U+C904", " ", "U+BBF8", "U+B9AC", "U+BCF4", "U+AE30", ":", "\n">>)

\* _create_offload_message naming the file by the raw tool-call id
OffloadMessageNamingId(tool_call_id, file_path, preview, config) ==
    TCat(OFFLOAD_MESSAGE_HEAD,
    TCat(Lit(config.eviction_path_prefix \o <<"/">> \o tool_call_id),
    TCat(OFFLOAD_MESSAGE_BODY,
    TCat(Lit(Decimal(config.preview_lines)),
    TCat(OFFLOAD_MESSAGE_PREVIEW,
    TCat(preview, Rep("\n", 1)))))))

\* _create_offload_message
_create_offload_message(tool_call_id, file_path, preview, config) ==
    TCat(OFFLOAD_MESSAGE_HEAD,
    TCat(Lit(file_path),
    TCat(OFFLOAD_MESSAGE_BODY,
    TCat(Lit(Decimal(config.preview_lines)),
    TCat(OFFLOAD_MESSAGE_PREVIEW,
    TCat(preview, Rep("\n", 1)))))))

\* str.isalnum() of one character: the ASCII letters and digits, and the
\* letters and digits beyond ASCII (of which two stand here)
AsciiAlnum ==
    {"a", "b", "c", "d", "e", "f", "g", "h", "i", "j", "k", "l", "m", "n", "o",
     "p", "q", "r", "s", "t", "u", "v", "w", "x", "y", "z",
     "A", "B", "C", "D", "E", "F", "G", "H", "I", "J", "K", "L", "M", "N", "O",
     "P", "Q", "R", "S", "T", "U", "V", "W", "X", "Y", "Z",
     "0", "1", "2", "3", "4", "5", "6", "7", "8", "9"}
UnicodeAlnum == {"U+00E9", "U+D55C"}
isalnum(c) == c \in AsciiAlnum \cup UnicodeAlnum

\* _sanitize_tool_call_id
_sanitize_tool_call_id(tool_call_id) ==
    [i \in 1..Len(tool_call_id) |->
        IF isalnum(tool_call_id[i]) \/ tool_call_id[i] \in {"-", "_"}
        THEN tool_call_id[i] ELSE "_"]

\* Command(update={"files": ..., "messages": [...]})
Command(files, messages) == [type |-> "command", files |-> files, messages |-> messages]

\* The backend's side of backend.write(file_path, content): it reports an
\* error and stores nothing; or it stores the file itself (files_update is
\* None); or, keeping its files in the graph state, it hands the new file
\* back as files_update for whoever applies the Command.
WriteResult(error, files_update, stored) ==
    [error |-> error, files_update |-> files_update, stored |-> stored]

BackendWrite(store, file_path, content) ==
    IF store.fails THEN WriteResult(TRUE, Nothing, FALSE)
    ELSE IF store.kind = "state"
    THEN WriteResult(FALSE, Some(file_path :> content), FALSE)
    ELSE WriteResult(FALSE, Nothing, TRUE)

\* a file system (path -> content) after the files of an update are put in it
Overlay(files, update) ==
    IF DOMAIN update = {} THEN files
    ELSE [p \in DOMAIN files \cup DOMAIN update |->
        IF p \in DOMAIN update THEN update[p] ELSE files[p]]

\* what a call did: the message and the OffloadingResult it returned, and
\* the backend.write calls it made
Processed(msg, result, writes) == [msg |-> msg, result |-> result, writes |-> writes]

\* process_tool_result, lines 190-215: the write went through
OffloadedReturn(tool_result, content, file_path, write, config) ==
    LET preview == _create_preview(content, config)
        replacement_text ==
            _create_offload_message(tool_result.tool_call_id, file_path, preview, config)
        result == OffloadingResult(TRUE, TLen(content), Some(file_path), Some(preview))
        message == ToolMessage(StrContent(replacement_text), tool_result.tool_call_id)
    IN  IF write.result.files_update.some
        THEN Processed(Command(write.result.files_update.val, <<message>>),
                       result, <<write>>)
        ELSE Processed(message, result, <<write>>)

\* process_tool_result with backend.write moved in front of the
\* _should_offload check
ProcessWritingBeforeCheck(tool_result, config, factory, store) ==
    LET content == ContentStr(tool_result.content)
        result == OffloadingResult(FALSE, TLen(content), Nothing, Nothing)
        sanitized_id == _sanitize_tool_call_id(tool_result.tool_call_id)
        file_path == config.eviction_path_prefix \o <<"/">> \o sanitized_id
        write == [path |-> file_path, content |-> content,
                  result |-> BackendWrite(store, file_path, content)]
    IN  IF factory = "none" THEN Processed(tool_result, result, <<>>)
        ELSE IF ~_should_offload(content, config)
        THEN Processed(tool_result, result, <<write>>)
        ELSE IF write.result.error THEN Processed(tool_result, result, <<write>>)
        ELSE OffloadedReturn(tool_result, content, file_path, write, config)

\* process_tool_result without the write_result.error check
ProcessIgnoringWriteError(tool_result, config, factory, store) ==
    LET content == ContentStr(tool_result.content)
        result == OffloadingResult(FALSE, TLen(content), Nothing, Nothing)
        sanitized_id == _sanitize_tool_call_id(tool_result.tool_call_id)
        file_path == config.eviction_path_prefix \o <<"/">> \o sanitized_id
        write == [path |-> file_path, content |-> content,
                  result |-> BackendWrite(store, file_path, content)]
    IN  IF ~_should_offload(content, config) THEN Processed(tool_result, result, <<>>)
        ELSE IF factory = "none" THEN Processed(tool_result, result, <<>>)
        ELSE OffloadedReturn(tool_result, content, file_path, write, config)

\* process_tool_result(tool_result, runtime) of a strategy with self.config
\* = config and self._backend_factory = factory ("none" for None), the
\* backend the factory returns behaving as backend says
process_tool_result(tool_result, config, factory, store) ==
    LET content == ContentStr(tool_result.content)
        result == OffloadingResult(FALSE, TLen(content), Nothing, Nothing)
        sanitized_id == _sanitize_tool_call_id(tool_result.tool_call_id)
        file_path == config.eviction_path_prefix \o <<"/">> \o sanitized_id
        write == [path |-> file_path, content |-> content,
                  result |-> BackendWrite(store, file_path, content)]
    IN  IF ~_should_offload(content, config) THEN Processed(tool_result, result, <<>>)
        ELSE IF factory = "none" THEN Processed(tool_result, result, <<>>)
        ELSE IF write.result.error THEN Processed(tool_result, result, <<write>>)
        ELSE OffloadedReturn(tool_result, content, file_path, write, config)

\* ---- the inputs of SpecOffload ----
MaxCalls == 2       \* tool results processed one after the other
MaxDelta == 0       \* contents reach MaxDelta characters below and beyond the
                    \* lengths from limit * chars_per_token to one token more
MaxNewlines == 3    \* a content has up to this many newlines

STATED_TOKEN_LIMIT == 100
SMALL_TOKEN_LIMIT == 10
CUSTOM_TOKEN_LIMIT == 15000
CUSTOM_CHARS_PER_TOKEN == 3
CUSTOM_PREVIEW_LINES == 3

OffloadConfigs ==
    {OffloadingConfig(DEFAULT_TOKEN_LIMIT, DEFAULT_EVICTION_PREFIX,
                      DEFAULT_PREVIEW_LINES, DEFAULT_CHARS_PER_TOKEN),
     OffloadingConfig(STATED_TOKEN_LIMIT, DEFAULT_EVICTION_PREFIX,
                      DEFAULT_PREVIEW_LINES, DEFAULT_CHARS_PER_TOKEN),
     OffloadingConfig(SMALL_TOKEN_LIMIT, DEFAULT_EVICTION_PREFIX,
                      CUSTOM_PREVIEW_LINES, 1),
     OffloadingConfig(CUSTOM_TOKEN_LIMIT, DEFAULT_EVICTION_PREFIX,
                      DEFAULT_PREVIEW_LINES, CUSTOM_CHARS_PER_TOKEN)}

\* the content lengths around the limit of a config, and the empty content
OffLengths(config) ==
    LET at == config.token_limit_before_evict * config.chars_per_token
    IN  {0} \cup ((at - MaxDelta)..(at + config.chars_per_token + MaxDelta))

\* the longest length that is not offloaded and the shortest that is
OffBoundary(config) ==
    LET at == config.token_limit_before_evict * config.chars_per_token
    IN  {at + config.chars_per_token - 1, at + config.chars_per_token}

\* nl lines "x" and then a last line, n characters in all
RECURSIVE ShortLines(_)
ShortLines(nl) ==
    IF nl = 0 THEN <<>>
    ELSE <<[c |-> "x", n |-> 1], [c |-> "\n", n |-> 1]>> \o ShortLines(nl - 1)

Lines(nl, n) == TCat(ShortLines(nl), Rep("x", n - 2 * nl))

\* the contents whose str() has n characters: one line, several lines, and
\* a list of one block
OffContents(config) ==
    {StrContent(Rep("x", n)) : n \in OffLengths(config)}
    \cup {StrContent(Lines(MaxNewlines, n)) : n \in OffBoundary(config)}
    \cup {ListContent(<<Lines(1, n - 5)>>) : n \in OffBoundary(config)}

STATED_SPECIAL_ID ==
    <<"c", "a", "l", "l", "/", "w", "i", "t", "h", ":", "s", "p", "e", "c", "i",
      "a", "l", "@", "c", "h", "a", "r", "s", "!">>

ToolCallIds == {<<"c", "/", "1">>, <<"c", ":", "1">>, STATED_SPECIAL_ID}

\* ---- the inputs of SpecSanitize ----
MaxIdLen == 3       \* tool-call ids have 0..MaxIdLen characters

\* ASCII letters and a digit, the two characters kept beside them, three
\* ASCII characters to replace, and two letters outside ASCII
IdChars == {"a", "Z", "7", "-", "_", "/", ":", " ", "U+00E9", "U+D55C"}

SanitizeIds == UNION {[1..n -> IdChars] : n \in 0..MaxIdLen}

SanInit == sId \in SanitizeIds /\ sOut = <<>> /\ sPc = "call"
SanIdle == sId = <<>> /\ sOut = <<>> /\ sPc = "idle"

\* _sanitize_tool_call_id(tool_call_id)
Sanitize ==
    /\ sPc = "call"
    /\ sOut' = _sanitize_tool_call_id(sId)
    /\ sPc' = "sanitized"
    /\ UNCHANGED sId

(***************************************************************************)
(* ContextCachingStrategy.apply_caching                                    *)
(*                                                                         *)
(* The model is known by its classification: provider is what              *)
(* detect_provider returns for it, named is what                           *)
(* detect_openrouter_sub_provider returns for the OpenRouter model name    *)
(* given with it, None when no name was given.  A message is [type,        *)
(* content]; a content is a string or a list of items, an item is a        *)
(* string or a dict with a "text" and perhaps a "cache_control".           *)
(***************************************************************************)
MaxCacheMsgs == 2       \* apply_caching gets 0..MaxCacheMsgs messages

DEFAULT_MIN_CACHEABLE_TOKENS == 1024
CACHE_CHARS_PER_TOKEN == 4

ProviderType ==
    {"anthropic", "openai", "gemini", "gemini_3", "openrouter", "deepseek",
     "groq", "grok", "unknown"}

OpenRouterSubProvider ==
    {"anthropic", "openai", "gemini", "deepseek", "groq", "grok", "meta-llama",
     "mistral", "unknown"}

\* cached_content_type is None (a type given is never the empty string)
NoContentType == <<>>

CacheItem(kind, text) == [kind |-> kind, text |-> text, cache_control |-> None]
CacheMsg(type, content) == [type |-> type, content |-> content]
CachingResult(was_cached, cached_content_type, estimated_tokens_cached) ==
    [was_cached |-> was_cached, cached_content_type |-> cached_content_type,
     estimated_tokens_cached |-> estimated_tokens_cached]

\* requires_cache_control_marker with every provider requiring the marker
RequiresMarkerAlways(provider, sub_provider) == TRUE

requires_cache_control_marker(provider, sub_provider) ==
    \/ provider = "anthropic"
    \/ provider = "openrouter" /\ sub_provider = "anthropic"

\* the property sub_provider
sub_provider(prov) == IF prov.provider # "openrouter" THEN None ELSE prov.named

\* the property should_apply_cache_markers
should_apply_cache_markers(prov) ==
    requires_cache_control_marker(prov.provider, sub_provider(prov))

\* _add_cache_control(content): a string becomes a marked dict, a list gets
\* the mark on its last item when that is a dict
_add_cache_control(content, config) ==
    IF content.kind = "str"
    THEN [kind |-> "dict", text |-> content.val,
          cache_control |-> config.cache_control_type]
    ELSE IF content.val = <<>> THEN content
    ELSE IF content.val[Len(content.val)].kind = "dict"
    THEN ListContent([content.val EXCEPT
                         ![Len(content.val)].cache_control = config.cache_control_type])
    ELSE content

\* _process_system_message(message): a dict is wrapped into a list
_process_system_message(message, config) ==
    LET cached_content == _add_cache_control(message.content, config)
    IN  CacheMsg("system", IF cached_content.kind = "dict"
                           THEN ListContent(<<cached_content>>)
                           ELSE cached_content)

\* ContextCachingStrategy._estimate_tokens(content): the items of a list
\* are estimated one by one
RECURSIVE CacheItemTokens(_)
CacheItemTokens(items) ==
    IF items = <<>> THEN 0
    ELSE TLen(items[1].text) \div CACHE_CHARS_PER_TOKEN + CacheItemTokens(Tail(items))

Cache_estimate_tokens(content) ==
    IF content.kind = "str" THEN TLen(content.val) \div CACHE_CHARS_PER_TOKEN
    ELSE CacheItemTokens(content.val)

_should_cache(content, config) ==
    Cache_estimate_tokens(content) >= config.min_cacheable_tokens

\* the f-string of line 342
AutoCachedBy(prov) ==
    <<"auto_cached_by_">>
    \o (IF prov.provider = "openrouter" /\ sub_provider(prov) # None
        THEN <<"openrouter", "/", sub_provider(prov)>>
        ELSE <<prov.provider>>)

\* apply_caching(messages), lines 333-365
apply_caching(messages, prov, config) ==
    IF messages = <<>> THEN [messages |-> messages, result |-> CachingResult(FALSE, NoContentType, 0)]
    ELSE IF ~should_apply_cache_markers(prov)
    THEN [messages |-> messages, result |-> CachingResult(FALSE, AutoCachedBy(prov), 0)]
    ELSE LET hits == {i \in 1..Len(messages) :
                         /\ messages[i].type = "system"
                         /\ config.enable_for_system_prompt
                         /\ _should_cache(messages[i].content, config)}
         IN  IF hits = {}
             THEN [messages |-> messages, result |-> CachingResult(FALSE, NoContentType, 0)]
             ELSE LET i == CHOOSE k \in hits : \A j \in hits : k <= j
                  IN  [messages |-> [messages EXCEPT
                                        ![i] = _process_system_message(messages[i], config)],
                       result |-> CachingResult(TRUE, <<"system_prompt">>,
                                     Cache_estimate_tokens(messages[i].content))]

\* ---- the inputs of SpecCaching ----
CachingConfigs ==
    [min_cacheable_tokens : {0, 10, DEFAULT_MIN_CACHEABLE_TOKENS},
     cache_control_type : {"ephemeral"},
     enable_for_system_prompt : BOOLEAN]

\* lengths about the threshold of config
CacheLengths(config) ==
    {n \in {0, CACHE_CHARS_PER_TOKEN * config.min_cacheable_tokens - 1,
            CACHE_CHARS_PER_TOKEN * config.min_cacheable_tokens,
            CACHE_CHARS_PER_TOKEN * config.min_cacheable_tokens + 5} : n >= 0}

CacheContents(config) ==
    {StrContent(Rep("x", n)) : n \in CacheLengths(config)}
    \cup {ListContent(<<>>)}
    \cup {ListContent(<<CacheItem(k, Rep("x", n))>>) :
             k \in {"dict", "str"},
             n \in {CACHE_CHARS_PER_TOKEN * config.min_cacheable_tokens}}
    \cup {ListContent(<<CacheItem("dict", Rep("x", n)), CacheItem("dict", Rep("y", n))>>) :
             n \in {CACHE_CHARS_PER_TOKEN * config.min_cacheable_tokens - 1} \ {-1}}

CacheMessages(config) ==
    {CacheMsg("system", c) : c \in CacheContents(config)}
    \cup {CacheMsg("human", StrContent(Rep("x", n))) :
             n \in {CACHE_CHARS_PER_TOKEN * config.min_cacheable_tokens}}

\* every provider with and without a model name; OpenRouter with every
\* classification of the name
Classifications ==
    {[provider |-> p, named |-> s] :
        p \in ProviderType \ {"openrouter"}, s \in {None, "anthropic"}}
    \cup {[provider |-> "openrouter", named |-> s] :
             s \in OpenRouterSubProvider \cup {None}}

NoCaching == [messages |-> <<>>, result |-> CachingResult(FALSE, NoContentType, 0)]

CacheInit ==
    /\ cCfg \in CachingConfigs
    /\ cProv \in Classifications
    /\ cMsgs \in UNION {[1..n -> CacheMessages(cCfg)] : n \in 0..MaxCacheMsgs}
    /\ cRet = NoCaching
    /\ cPc = "call"

CacheIdle ==
    /\ cCfg = None /\ cProv = None /\ cMsgs = <<>> /\ cRet = NoCaching /\ cPc = "idle"

ApplyCaching ==
    /\ cPc = "call"
    /\ cRet' = apply_caching(cMsgs, cProv, cCfg)
    /\ cPc' = "cached"
    /\ UNCHANGED <<cMsgs, cCfg, cProv>>

(***************************************************************************)
(* skills/load.py: list_skills                                             *)
(*                                                                         *)
(* A skills directory is the sequence of its sub-directories as iterdir    *)
(* lists them.  A sub-directory is known by its name and by what its       *)
(* SKILL.md is: missing, too big, unreadable, without front matter, or a   *)
(* mapping with the values of "name" and "description" (the empty text     *)
(* when the key is missing or its value is empty).  Texts are run-length   *)
(* encoded.                                                                *)
(***************************************************************************)
MaxSkills == 2          \* sub-directories of the two skills directories together

MAX_SKILL_NAME_LENGTH == 64
MAX_SKILL_DESCRIPTION_LENGTH == 1024

SlugChars ==
    {"a", "b", "c", "d", "e", "f", "g", "h", "i", "j", "k", "l", "m", "n", "o",
     "p", "q", "r", "s", "t", "u", "v", "w", "x", "y", "z",
     "0", "1", "2", "3", "4", "5", "6", "7", "8", "9"}

\* [a-z0-9]+(-[a-z0-9]+)* matches the whole of text
IsSlug(text) ==
    /\ text # <<>>
    /\ \A r \in 1..Len(text) :
          \/ text[r].c \in SlugChars
          \/ text[r].c = "-" /\ text[r].n = 1 /\ 1 < r /\ r < Len(text)

\* re.match(r"^[a-z0-9]+(-[a-z0-9]+)*$", name): $ matches at the end of the
\* string and before a newline that ends it
SlugMatch(name) ==
    \/ IsSlug(name)
    \/ /\ name # <<>>
       /\ name[Len(name)] = [c |-> "\n", n |-> 1]
       /\ IsSlug(SubSeq(name, 1, Len(name) - 1))

_validate_skill_name(name, directory_name) ==
    IF name = <<>> THEN [is_valid |-> FALSE, error |-> "required"]
    ELSE IF TLen(name) > MAX_SKILL_NAME_LENGTH THEN [is_valid |-> FALSE, error |-> "too_long"]
    ELSE IF ~SlugMatch(name) THEN [is_valid |-> FALSE, error |-> "pattern"]
    ELSE IF name # directory_name THEN [is_valid |-> FALSE, error |-> "mismatch"]
    ELSE [is_valid |-> TRUE, error |-> ""]

SkillMetadata(name, description, path, source) ==
    [name |-> name, description |-> description, path |-> path, source |-> source]

\* str(skill_md_path) of the SKILL.md of sub-directory dir of the skills
\* directory of source
SkillMdPath(source, dir) == <<source, dir, "SKILL.md">>

\* what _parse_skill_metadata gives: the metadata or None, and whether it
\* warned about the name
Parsed(meta, warned) == [meta |-> meta, warned |-> warned]

\* _parse_skill_metadata returning the description as it is written
ParseKeepingDescription(skill, source) ==
    IF skill.file # "mapping" THEN Parsed(Nothing, FALSE)
    ELSE IF skill.name = <<>> \/ skill.description = <<>> THEN Parsed(Nothing, FALSE)
    ELSE Parsed(Some(SkillMetadata(skill.name, skill.description,
                                   SkillMdPath(source, skill.dir), source)),
                ~_validate_skill_name(skill.name, skill.dir).is_valid)

\* _parse_skill_metadata(skill_md_path, source)
_parse_skill_metadata(skill, source) ==
    IF skill.file # "mapping" THEN Parsed(Nothing, FALSE)
    ELSE IF skill.name = <<>> \/ skill.description = <<>> THEN Parsed(Nothing, FALSE)
    ELSE LET is_valid == _validate_skill_name(skill.name, skill.dir).is_valid
             description_str ==
                 IF TLen(skill.description) > MAX_SKILL_DESCRIPTION_LENGTH
                 THEN TTake(skill.description, MAX_SKILL_DESCRIPTION_LENGTH)
                 ELSE skill.description
         IN  Parsed(Some(SkillMetadata(skill.name, description_str,
                                       SkillMdPath(source, skill.dir), source)),
                    ~is_valid)

\* _list_skills_from_dir(skills_dir, source): the sub-directories without a
\* SKILL.md are passed over, the others parsed
_list_skills_from_dir(skills_dir, source) ==
    LET parsed == [i \in 1..Len(skills_dir) |->
                      IF skills_dir[i].file = "missing" THEN Parsed(Nothing, FALSE)
                      ELSE _parse_skill_metadata(skills_dir[i], source)]
        found == SelectSeq(parsed, LAMBDA p : p.meta.some)
    IN  [i \in 1..Len(found) |-> [skill |-> found[i].meta.val, warned |-> found[i].warned]]

\* all_skills[skill["name"]] = skill, for each skill of found in turn: a
\* dict keeps the place of a key it already holds
RECURSIVE PutAll(_, _)
PutAll(all_skills, found) ==
    IF found = <<>> THEN all_skills
    ELSE LET skill == found[1].skill
             at == {i \in 1..Len(all_skills) : all_skills[i].name = skill.name}
         IN  PutAll(IF at = {} THEN Append(all_skills, skill)
                    ELSE [all_skills EXCEPT ![CHOOSE i \in at : TRUE] = skill],
                    Tail(found))

\* list_skills(user_skills_dir=..., project_skills_dir=...)
list_skills(user_skills_dir, project_skills_dir) ==
    LET user_skills == _list_skills_from_dir(user_skills_dir, "user")
        project_skills == _list_skills_from_dir(project_skills_dir, "project")
        found == {user_skills[i] : i \in 1..Len(user_skills)}
                 \cup {project_skills[i] : i \in 1..Len(project_skills)}
    IN  [skills |-> PutAll(PutAll(<<>>, user_skills), project_skills),
         warned |-> {f.skill.path : f \in {g \in found : g.warned}}]

\* ---- the inputs of SpecSkills ----
\* directory names: a short slug, a slug of the greatest length, and a name
\* with a double hyphen
SkillDirNames ==
    {Rep("a", 1), Rep("a", MAX_SKILL_NAME_LENGTH),
     <<[c |-> "a", n |-> 1], [c |-> "-", n |-> 2], [c |-> "b", n |-> 1]>>}

\* names written in the manifest: those, and a slug with one hyphen, an
\* upper-case letter, a slug one character too long, a slug ending in a
\* newline
ManifestNames ==
    SkillDirNames
    \cup {<<[c |-> "a", n |-> 1], [c |-> "-", n |-> 1], [c |-> "b", n |-> 1]>>,
          Rep("A", 1), Rep("a", MAX_SKILL_NAME_LENGTH + 1),
          <<[c |-> "a", n |-> 1], [c |-> "\n", n |-> 1]>>}

ManifestDescriptions ==
    {Rep("d", MAX_SKILL_DESCRIPTION_LENGTH),
     <<[c |-> "d", n |-> MAX_SKILL_DESCRIPTION_LENGTH], [c |-> "e", n |-> 1]>>}

SkillDir(dir, file, name, description) ==
    [dir |-> dir, file |-> file, name |-> name, description |-> description]

SkillDirs ==
    {SkillDir(d, f, <<>>, <<>>) :
        d \in SkillDirNames, f \in {"missing", "too_big", "no_frontmatter", "unreadable"}}
    \cup {SkillDir(d, "mapping", n, s) :
             d \in SkillDirNames, n \in ManifestNames, s \in ManifestDescriptions}
    \cup {SkillDir(d, "mapping", n, <<>>) : d \in SkillDirNames, n \in {<<>>, Rep("a", 1)}}

\* the listings of one skills directory: its sub-directories have
\* different names
Listings(n) ==
    {l \in [1..n -> SkillDirs] : \A i, j \in 1..n : i # j => l[i].dir # l[j].dir}

NoListing == [skills |-> <<>>, warned |-> {}]

SkillInit ==
    /\ \E n \in 0..MaxSkills : \E m \in 0..(MaxSkills - n) :
          kUser \in Listings(n) /\ kProject \in Listings(m)
    /\ kRet = NoListing
    /\ kPc = "call"

SkillIdle == kUser = <<>> /\ kProject = <<>> /\ kRet = NoListing /\ kPc = "idle"

ListSkills ==
    /\ kPc = "call"
    /\ kRet' = list_skills(kUser, kProject)
    /\ kPc' = "listed"
    /\ UNCHANGED <<kUser, kProject>>

NoToolResult == ToolMessage(StrContent(<<>>), <<>>)
NoProcessed ==
    Processed(NoToolResult, OffloadingResult(FALSE, 0, Nothing, Nothing), <<>>)

OffInit ==
    /\ oCfg \in OffloadConfigs
    /\ oFactory \in {"none", "direct", "state"}
    /\ oFs = <<>>
    /\ oMsg = NoToolResult
    /\ oRet = NoProcessed
    /\ oApplied = FALSE
    /\ oCalls = 0
    /\ oPc = "idle"

OffIdle ==
    /\ oCfg = None /\ oFactory = "none" /\ oFs = <<>>
    /\ oMsg = NoToolResult /\ oRet = NoProcessed
    /\ oApplied = FALSE /\ oCalls = 0 /\ oPc = "idle"

\* a returned Command whose update nobody has applied yet
Pending == oRet.msg.type = "command" /\ ~oApplied

\* the backend the factory returns, and whether its write will fail
Backends == [kind : {oFactory}, fails : IF oFactory = "none" THEN {FALSE} ELSE BOOLEAN]

\* the file system after the writes of a call
AfterWrites(files, writes) ==
    IF writes # <<>> /\ writes[1].result.stored
    THEN Overlay(files, writes[1].path :> writes[1].content)
    ELSE files

\* process_tool_result(tool_result, runtime)
ProcessToolResult ==
    /\ oCalls < MaxCalls
    /\ ~Pending
    /\ \E content \in OffContents(oCfg), id \in ToolCallIds, store \in Backends :
          LET tool_result == ToolMessage(content, id)
              r == process_tool_result(tool_result, oCfg, oFactory, store)
          IN  /\ oMsg' = tool_result
              /\ oRet' = r
              /\ oFs' = AfterWrites(oFs, r.writes)
    /\ oApplied' = FALSE
    /\ oCalls' = oCalls + 1
    /\ oPc' = "process"
    /\ UNCHANGED <<oCfg, oFactory>>

\* the graph applies the update of the Command that was returned: its files
\* are the backend's files from now on
ApplyUpdate ==
    /\ Pending
    /\ oFs' = Overlay(oFs, oRet.msg.files)
    /\ oApplied' = TRUE
    /\ UNCHANGED <<oCfg, oFactory, oMsg, oRet, oCalls, oPc>>


(***************************************************************************)
(* DockerSandboxBackend.upload_files and download_files                    *)
(*                                                                         *)
(* A path, a message and a file content are sequences of characters.  The  *)
(* container's file system maps an absolute path to [kind |-> "file" or    *)
(* "dir", content].  The runtime (docker-py and the daemon) is the         *)
(* environment: per item it behaves as the file system says, or fails.     *)
(***************************************************************************)
WORKSPACE_ROOT == <<"/", "w", "o", "r", "k", "s", "p", "a", "c", "e">>

\* sub in s
Contains(s, sub) ==
    \E i \in 1..(Len(s) - Len(sub) + 1) : SubSeq(s, i, i + Len(sub) - 1) = sub

UpperCase ==
    <<"A", "B", "C", "D", "E", "F", "G", "H", "I", "J", "K", "L", "M", "N", "O",
      "P", "Q", "R", "S", "T", "U", "V", "W", "X", "Y", "Z">>
LowerCase ==
    <<"a", "b", "c", "d", "e", "f", "g", "h", "i", "j", "k", "l", "m", "n", "o",
      "p", "q", "r", "s", "t", "u", "v", "w", "x", "y", "z">>

\* str.lower()
Lower(s) ==
    [i \in 1..Len(s) |->
        IF \E k \in 1..Len(UpperCase) : UpperCase[k] = s[i]
        THEN LowerCase[CHOOSE k \in 1..Len(UpperCase) : UpperCase[k] = s[i]]
        ELSE s[i]]

\* the characters of runs lo..hi of a text, one by one
RECURSIVE ExpandRuns(_, _, _)
ExpandRuns(t, lo, hi) ==
    IF lo > hi THEN <<>>
    ELSE IF lo = hi THEN [i \in 1..t[lo].n |-> t[lo].c]
    ELSE ExpandRuns(t, lo, (lo + hi) \div 2) \o ExpandRuns(t, (lo + hi) \div 2 + 1, hi)

Expand(t) == ExpandRuns(t, 1, Len(t))

\* p.rfind("/") + 1
AfterLastSlash(p) ==
    IF \E i \in 1..Len(p) : p[i] = "/"
    THEN CHOOSE i \in 1..Len(p) : p[i] = "/" /\ \A j \in (i + 1)..Len(p) : p[j] # "/"
    ELSE 0

\* s.rstrip("/")
RStripSlash(s) ==
    IF \E i \in 1..Len(s) : s[i] # "/"
    THEN SubSeq(s, 1, CHOOSE i \in 1..Len(s) :
                          s[i] # "/" /\ \A j \in (i + 1)..Len(s) : s[j] = "/")
    ELSE <<>>

\* posixpath.dirname
dirname(p) ==
    LET head == SubSeq(p, 1, AfterLastSlash(p))
    IN  IF head # <<>> /\ (\E i \in 1..Len(head) : head[i] # "/")
        THEN RStripSlash(head) ELSE head

\* posixpath.basename
basename(p) == SubSeq(p, AfterLastSlash(p) + 1, Len(p))

\* posixpath.join(a, b) for a b that does not start with "/"
PathJoin(a, b) ==
    IF a = <<>> \/ a[Len(a)] = "/" THEN a \o b ELSE a \o <<"/">> \o b

\* _resolve_path
_resolve_path(path) ==
    IF path # <<>> /\ path[1] = "/" THEN path ELSE PathJoin(WORKSPACE_ROOT, path)

\* ---- the runtime's side ----
File(content) == [kind |-> "file", content |-> content]
Dir == [kind |-> "dir", content |-> <<>>]

\* the path the daemon looks up: a trailing slash names the same entry
Entry(full_path) == IF RStripSlash(full_path) = <<>> THEN <<"/">> ELSE RStripSlash(full_path)

IsPrefix(a, b) == Len(a) <= Len(b) /\ SubSeq(b, 1, Len(a)) = a

\* the entries below directory d, in some fixed order
RECURSIVE InOrder(_)
InOrder(S) ==
    IF S = {} THEN <<>>
    ELSE LET p == CHOOSE x \in S : \A y \in S : Len(x) <= Len(y)
         IN  <<p>> \o InOrder(S \ {p})

Below(files, d) == InOrder({p \in DOMAIN files : p # d /\ IsPrefix(d \o <<"/">>, p)})

TarMember(name, entry) ==
    [name |-> name, isfile |-> entry.kind = "file", content |-> entry.content]

\* container.get_archive(full_path): the tar archive of a file, or of a
\* directory with everything below it
Archive(files, full_path) ==
    LET e == Entry(full_path)
    IN  IF files[e].kind = "file" THEN <<TarMember(basename(e), files[e])>>
        ELSE <<TarMember(basename(e), files[e])>>
             \o [i \in 1..Len(Below(files, e)) |->
                    TarMember(Below(files, e)[i], files[Below(files, e)[i]])]

\* the text of the error the daemon answers for a path that is not there
NotFoundMessage(full_path) ==
    <<"N", "o", "t", " ", "F", "o", "u", "n", "d", " ", "(", "C", "o", "u", "l", "d",
      " ", "n", "o", "t", " ", "f", "i", "n", "d", " ", "t", "h", "e", " ",
      "f", "i", "l", "e", " ">> \o full_path
    \o <<" ", "i", "n", " ", "c", "o", "n", "t", "a", "i", "n", "e", "r", ")">>

\* ---- the backend's side ----
\* an Optional content or error: Some(x) or Nothing
FileDownloadResponse(path, content, error) ==
    [path |-> path, content |-> content, error |-> error]
FileUploadResponse(path, error) == [path |-> path, error |-> error]

\* _extract_tar_content: the first regular file of the archive, or None
_extract_tar_content(raw) ==
    LET members == SelectSeq(raw, LAMBDA m : m.isfile)
    IN  IF members = <<>> THEN Nothing ELSE Some(members[1].content)

\* _map_download_error(exc), message being str(exc)
_map_download_error(message) ==
    LET m == Lower(message)
    IN  IF Contains(m, <<"p", "e", "r", "m", "i", "s", "s", "i", "o", "n">>)
        THEN "permission_denied"
        ELSE IF Contains(m, <<"n", "o", " ", "s", "u", "c", "h", " ", "f", "i", "l", "e">>)
                \/ Contains(m, <<"n", "o", "t", " ", "f", "o", "u", "n", "d">>)
        THEN "file_not_found"
        ELSE IF Contains(m, <<"i", "s", " ", "a", " ", "d", "i", "r", "e", "c", "t", "o", "r", "y">>)
        THEN "is_directory"
        ELSE "invalid_path"

\* _map_upload_error(exc), message being str(exc)
_map_upload_error(message) ==
    LET m == Lower(message)
    IN  IF Contains(m, <<"p", "e", "r", "m", "i", "s", "s", "i", "o", "n">>)
        THEN "permission_denied"
        ELSE IF Contains(m, <<"i", "s", " ", "a", " ", "d", "i", "r", "e", "c", "t", "o", "r", "y">>)
        THEN "is_directory"
        ELSE "invalid_path"

\* the message of the RuntimeError _get_container raises
LookupError(msg) == Expand(LOOKUP_ERROR_PREFIX) \o msg

\* One item of download_files under the runtime behaviour env:
\*   env.outcome = "lookup_raises": client.containers.get raises env.msg;
\*   env.outcome = "call_raises": container.get_archive raises env.msg;
\*   env.outcome = "ok": the runtime answers as the file system says.
DownloadOne(files, path, env) ==
    LET full_path == _resolve_path(path)
        failed(message) ==
            FileDownloadResponse(path, Nothing, Some(_map_download_error(message)))
    IN  IF env.outcome = "lookup_raises" THEN failed(LookupError(env.msg))
        ELSE IF env.outcome = "call_raises" THEN failed(env.msg)
        ELSE IF Entry(full_path) \notin DOMAIN files
        THEN failed(NotFoundMessage(full_path))
        ELSE LET content == _extract_tar_content(Archive(files, full_path))
             IN  IF ~content.some
                 THEN FileDownloadResponse(path, Nothing, Some("is_directory"))
                 ELSE FileDownloadResponse(path, content, Nothing)

\* download_files(paths): the responses, and the items the loop reached
RECURSIVE DownloadLoop(_, _, _, _)
DownloadLoop(files, paths, envs, i) ==
    IF i > Len(paths) THEN [responses |-> <<>>, reached |-> <<>>]
    ELSE LET rest == DownloadLoop(files, paths, envs, i + 1)
         IN  [responses |-> <<DownloadOne(files, paths[i], envs[i])>> \o rest.responses,
              reached |-> <<i>> \o rest.reached]

download_files(files, paths, envs) == DownloadLoop(files, paths, envs, 1)

FILE_NAME_NEEDED ==
    <<"U+C5C5", "U+B85C", "U+B4DC", " ", "U+ACBD", "U+B85C", "U+C5D0", " ",
      "U+D30C", "U+C77C", "U+BA85", "U+C774", " ", "U+D544", "U+C694",
      "U+D569", "U+B2C8", "U+B2E4">>

MKDIR_FAILED ==
    <<"U+C6CC", "U+D06C", "U+C2A4", "U+D398", "U+C774", "U+C2A4", " ",
      "U+B514", "U+B809", "U+D1A0", "U+B9AC", " ", "U+C0DD", "U+C131", " ",
      "U+C2E4", "U+D328">>

\* what the daemon says when a directory is in the way of a file
PUT_OVER_DIRECTORY ==
    <<"c", "a", "n", "n", "o", "t", " ", "o", "v", "e", "r", "w", "r", "i", "t", "e",
      " ", "d", "i", "r", "e", "c", "t", "o", "r", "y">>

\* d and the directories above it, the root left out
Ancestors(d) ==
    {SubSeq(d, 1, i) : i \in {j \in 1..Len(d) : j = Len(d) \/ d[j + 1] = "/"}}
    \ {<<>>, <<"/">>}

\* the file system after mkdir -p d
WithDirs(files, d) ==
    [p \in DOMAIN files \cup Ancestors(d) |-> IF p \in DOMAIN files THEN files[p] ELSE Dir]

\* the runtime's answer to execute("mkdir -p " + parent_dir)
MkdirEnv(files, parent_dir, env) ==
    IF env.outcome = "lookup_raises"
    THEN [outcome |-> "lookup_raises", is_bytes |-> TRUE, raw |-> <<>>, exit_code |-> 0,
          msg |-> Lit(env.msg)]
    ELSE IF env.outcome = "mkdir_fails"
    THEN [outcome |-> "ran", is_bytes |-> TRUE, raw |-> Lit(env.msg), exit_code |-> 1,
          msg |-> <<>>]
    ELSE [outcome |-> "ran", is_bytes |-> TRUE, raw |-> <<>>, exit_code |-> 0, msg |-> <<>>]

\* _ensure_parent_dir(parent_dir): whether it raised, with what message, and
\* the file system it leaves
_ensure_parent_dir(files, parent_dir, env) ==
    IF parent_dir = <<>> THEN [raised |-> FALSE, message |-> <<>>, files |-> files]
    ELSE LET result == execute(MkdirEnv(files, parent_dir, env))
         IN  IF result.exit_code # 0
             THEN [raised |-> TRUE,
                   message |-> IF result.output # <<>> THEN Expand(result.output)
                               ELSE MKDIR_FAILED,
                   files |-> files]
             ELSE [raised |-> FALSE, message |-> <<>>, files |-> WithDirs(files, parent_dir)]

\* One item of upload_files under the runtime behaviour env ("lookup_raises",
\* "mkdir_fails", "call_raises" for a put_archive that raises env.msg, "ok"):
\* the response and the file system after it.
UploadOne(files, item, env) ==
    LET path == item.path
        full_path == _resolve_path(path)
        parent_dir == dirname(full_path)
        file_name == basename(full_path)
        made == _ensure_parent_dir(files, parent_dir, env)
        failed(message, after) ==
            [response |-> FileUploadResponse(path, Some(_map_upload_error(message))),
             files |-> after]
    IN  IF file_name = <<>> THEN failed(FILE_NAME_NEEDED, files)
        ELSE IF made.raised THEN failed(made.message, made.files)
        ELSE IF env.outcome = "call_raises" THEN failed(env.msg, made.files)
        ELSE IF full_path \in DOMAIN made.files /\ made.files[full_path].kind = "dir"
        THEN failed(PUT_OVER_DIRECTORY, made.files)
        ELSE [response |-> FileUploadResponse(path, Nothing),
              files |-> [p \in DOMAIN made.files \cup {full_path} |->
                            IF p = full_path THEN File(item.content) ELSE made.files[p]]]

\* upload_files leaving its loop at the first item that failed
RECURSIVE UploadLoopAborting(_, _, _, _)
UploadLoopAborting(files, items, envs, i) ==
    IF i > Len(items) THEN [responses |-> <<>>, reached |-> <<>>, files |-> files]
    ELSE LET one == UploadOne(files, items[i], envs[i])
             rest == IF one.response.error.some
                     THEN [responses |-> <<>>, reached |-> <<>>, files |-> one.files]
                     ELSE UploadLoopAborting(one.files, items, envs, i + 1)
         IN  [responses |-> <<one.response>> \o rest.responses,
              reached |-> <<i>> \o rest.reached,
              files |-> rest.files]

\* upload_files(files): the responses, the items the loop reached, and the
\* file system it leaves
RECURSIVE UploadLoop(_, _, _, _)
UploadLoop(files, items, envs, i) ==
    IF i > Len(items) THEN [responses |-> <<>>, reached |-> <<>>, files |-> files]
    ELSE LET one == UploadOne(files, items[i], envs[i])
             rest == UploadLoop(one.files, items, envs, i + 1)
         IN  [responses |-> <<one.response>> \o rest.responses,
              reached |-> <<i>> \o rest.reached,
              files |-> rest.files]

upload_files(files, items, envs) == UploadLoop(files, items, envs, 1)

\* ---- the inputs of SpecTransfer ----
MaxBatch == 2       \* a batch has 0..MaxBatch items

\* the container: a file, an empty directory, a directory holding a file
TransferFiles ==
    (WORKSPACE_ROOT :> Dir)
    @@ (PathJoin(WORKSPACE_ROOT, <<"a">>) :> File(<<"A">>))
    @@ (PathJoin(WORKSPACE_ROOT, <<"d">>) :> Dir)
    @@ (PathJoin(WORKSPACE_ROOT, <<"f", "u", "l", "l">>) :> Dir)
    @@ (PathJoin(WORKSPACE_ROOT, <<"f", "u", "l", "l", "/", "f">>) :> File(<<"F">>))

\* a file, the two directories, two missing paths, and a path without a
\* file name
TransferPaths ==
    {<<"a">>, <<"d">>, <<"f", "u", "l", "l">>, <<"n", "o", "p", "e">>,
     <<"p", "e", "r", "m", "i", "s", "s", "i", "o", "n", "s">>, <<"d", "/">>}

TransferItems == [path : TransferPaths, content : {<<"N">>}]

PERMISSION_DENIED ==
    <<"P", "e", "r", "m", "i", "s", "s", "i", "o", "n", " ", "d", "e", "n", "i", "e", "d">>
SERVER_ERROR == <<"s", "e", "r", "v", "e", "r", " ", "e", "r", "r", "o", "r">>

\* the runtime answers as the file system says, or the container lookup, the
\* mkdir or the archive call fails
TransferEnvs ==
    {[outcome |-> "ok", msg |-> <<>>],
     [outcome |-> "lookup_raises", msg |-> SERVER_ERROR],
     [outcome |-> "mkdir_fails", msg |-> SERVER_ERROR],
     [outcome |-> "call_raises", msg |-> PERMISSION_DENIED]}

SeqsUpTo(S, n) == UNION {[1..k -> S] : k \in 0..n}

NoTransfer == [responses |-> <<>>, reached |-> <<>>]

TransferInit ==
    /\ xFs = TransferFiles
    /\ xBatch \in SeqsUpTo(TransferItems, MaxBatch)
    /\ xEnv \in [1..Len(xBatch) -> TransferEnvs]
    /\ xRet = NoTransfer
    /\ xPc = "call"

TransferIdle ==
    /\ xFs = <<>> /\ xBatch = <<>> /\ xEnv = <<>> /\ xRet = NoTransfer /\ xPc = "idle"

\* download_files(paths)
DownloadFiles ==
    /\ xPc = "call"
    /\ xRet' = download_files(xFs, [i \in 1..Len(xBatch) |-> xBatch[i].path], xEnv)
    /\ xPc' = "download"
    /\ UNCHANGED <<xFs, xBatch, xEnv>>

\* upload_files(files)
UploadFiles ==
    /\ xPc = "call"
    /\ LET r == upload_files(xFs, xBatch, xEnv)
       IN  /\ xRet' = [responses |-> r.responses, reached |-> r.reached]
           /\ xFs' = r.files
    /\ xPc' = "upload"
    /\ UNCHANGED <<xBatch, xEnv>>


\* ---- the inputs of SpecExec ----
MaxShort == 2       \* short outputs have 0..MaxShort characters
MaxOver == 2        \* long outputs have OUTPUT_CAP-MaxOver..OUTPUT_CAP+MaxOver

ExLengths == (0..MaxShort) \cup ((OUTPUT_CAP - MaxOver)..(OUTPUT_CAP + MaxOver))

\* n characters: a body of one character and a different last character
TextOf(body, last, n) == TCat(Rep(body, n - 1), Rep(last, IF n >= 1 THEN 1 ELSE 0))

ExTexts ==
    {TextOf(b, l, n) : b \in {"x"}, l \in {"y", "\n", INVALID_BYTE}, n \in ExLengths}

ExEnvs ==
    [outcome : {"ran"}, is_bytes : BOOLEAN, raw : ExTexts, exit_code : {0, 42},
     msg : {<<>>}]
    \cup
    [outcome : {"exec_raises", "lookup_raises"}, is_bytes : {TRUE}, raw : {<<>>},
     exit_code : {0}, msg : ExTexts]

ExecInit == exEnv \in ExEnvs /\ exResp = NoResp /\ exPc = "call"
ExecIdle == exEnv = None /\ exResp = NoResp /\ exPc = "idle"

\* execute(command)
Execute ==
    /\ exPc = "call"
    /\ exResp' = execute(exEnv)
    /\ exPc' = "done"
    /\ UNCHANGED exEnv

\* aexecute(command): asyncio.to_thread(self.execute, command)
AExecute ==
    /\ exPc = "call"
    /\ exResp' = execute(exEnv)
    /\ exPc' = "adone"
    /\ UNCHANGED exEnv

(***************************************************************************)
(* DockerSandboxSession over the container runtime.  start() and stop()    *)
(* are coroutines that suspend at their asyncio.to_thread calls, so each   *)
(* is a sequence of steps of a task, and the steps of different tasks      *)
(* interleave.  The runtime (docker-py and the daemon) is the environment: *)
(* each of its calls either succeeds or raises.                            *)
(***************************************************************************)
MaxContainers == 2      \* the runtime creates at most this many containers
NumTasks == 2           \* concurrent callers of the session

\* self._container / self._backend is None
NoContainer == 0

Ids == 1..MaxContainers

\* A suspended start() or stop() is a frame: the await it stands at and its
\* container (the one start() created, or stop()'s local variable
\* container).  The callers differ in nothing else, so the suspended calls
\* are kept as a bag: frames[f] is the number of calls suspended at f.  A
\* start() suspended at containers.run stands at "start_run", or at
\* "restart_run" when it was called after a stop() had completed.
Frame(pc, loc) == [pc |-> pc, loc |-> loc]
FrameKinds ==
    {Frame("start_run", NoContainer), Frame("restart_run", NoContainer)}
    \cup {Frame(pc, i) : pc \in {"start_mkdir", "stop_stop", "stop_remove"}, i \in Ids}

\* the number of suspended calls: those at containers.run, and those at a
\* call on one of the containers 1..i
RECURSIVE InFlightUpTo(_, _)
InFlightUpTo(fr, i) ==
    IF i = 0
    THEN fr[Frame("start_run", NoContainer)] + fr[Frame("restart_run", NoContainer)]
    ELSE fr[Frame("start_mkdir", i)] + fr[Frame("stop_stop", i)]
         + fr[Frame("stop_remove", i)] + InFlightUpTo(fr, i - 1)

InFlight == InFlightUpTo(frames, MaxContainers)

\* a caller is free to enter start() or stop()
CallerFree == InFlight < NumTasks

Enter(f) == [frames EXCEPT ![f] = @ + 1]
Leave(f) == [frames EXCEPT ![f] = @ - 1]
Move(f, g) == [frames EXCEPT ![f] = @ - 1, ![g] = @ + 1]

NoCall == [op |-> "none", raised |-> FALSE, ran |-> FALSE, state |-> "unstarted"]

SessInit ==
    /\ container = NoContainer /\ backend = NoContainer /\ docker_client = FALSE
    /\ docker = [i \in Ids |-> "absent"]
    /\ dirs = [i \in Ids |-> FALSE]
    /\ created = 0
    /\ frames = [f \in FrameKinds |-> 0]
    /\ held = {}
    /\ everStopped = FALSE
    /\ lastCall = NoCall

SessIdle ==
    /\ container = NoContainer /\ backend = NoContainer /\ docker_client = FALSE
    /\ docker = <<>> /\ dirs = <<>> /\ created = 0 /\ frames = <<>>
    /\ held = {} /\ everStopped = FALSE
    /\ lastCall = NoCall

\* The state of the session as its callers see it: running while it holds a
\* container; stopping while a stop() that took the container away is still
\* tearing it down; stopped once such a stop() has returned.
SessionState ==
    IF container # NoContainer THEN "running"
    ELSE IF \E i \in Ids : frames[Frame("stop_stop", i)] > 0
                           \/ frames[Frame("stop_remove", i)] > 0 THEN "stopping"
    ELSE IF everStopped THEN "stopped"
    ELSE "unstarted"

\* a call of the session that returned or raised, in the state it ended in
Called(op, raised) ==
    [op |-> op, raised |-> raised, ran |-> FALSE, state |-> "unstarted"]

\* start() without the early return of lines 59-60
StartBeginAlways ==
    /\ CallerFree
    /\ docker_client' = TRUE
    /\ frames' = Enter(Frame(IF everStopped THEN "restart_run" ELSE "start_run",
                             NoContainer))
    /\ UNCHANGED <<container, backend, docker, dirs, created, held, everStopped, lastCall>>

\* start(), lines 59-62: return at once when a container is held; otherwise
\* get the client (_get_docker_client raises when docker is unavailable and
\* no client is cached) and hand client.containers.run to a thread.
StartBegin ==
    /\ CallerFree
    /\ \/ /\ container # NoContainer
          /\ lastCall' = Called("start", FALSE)
          /\ UNCHANGED <<frames, docker_client>>
       \/ /\ container = NoContainer
          /\ docker_client' = TRUE
          /\ frames' = Enter(Frame(IF everStopped THEN "restart_run" ELSE "start_run",
                                   NoContainer))
          /\ UNCHANGED lastCall
       \/ /\ container = NoContainer
          /\ ~docker_client
          /\ lastCall' = Called("start", TRUE)
          /\ UNCHANGED <<frames, docker_client>>
    /\ UNCHANGED <<container, backend, docker, dirs, created, held, everStopped>>

\* start(), lines 64-76: client.containers.run returns the new container,
\* which is assigned to self._container, and self._container.exec_run is
\* handed to a thread; or containers.run raises and start() raises
\* RuntimeError (lines 80-81).
StartRun ==
    \E pc \in {"start_run", "restart_run"} :
    /\ frames[Frame(pc, NoContainer)] > 0
    /\ \/ /\ created < MaxContainers
          /\ created' = created + 1
          /\ docker' = [docker EXCEPT ![created + 1] = "running"]
          /\ container' = created + 1
          /\ frames' = Move(Frame(pc, NoContainer), Frame("start_mkdir", created + 1))
          /\ UNCHANGED lastCall
       \/ /\ frames' = Leave(Frame(pc, NoContainer))
          /\ lastCall' = Called("start", TRUE)
          /\ UNCHANGED <<created, docker, container>>
    /\ UNCHANGED <<backend, docker_client, dirs, held, everStopped>>

\* start(), lines 76-81: the mkdir -p of the workspace directories ran in
\* the container start() created (the container whose exec_run was handed
\* to the thread) and start() returns; or exec_run raised and start()
\* raises RuntimeError.
StartMkdir(i) ==
    /\ frames[Frame("start_mkdir", i)] > 0
    /\ \/ /\ docker[i] = "running"
          /\ dirs' = [dirs EXCEPT ![i] = TRUE]
          /\ lastCall' = Called("start", FALSE)
       \/ /\ lastCall' = Called("start", TRUE)
          /\ UNCHANGED dirs
    /\ frames' = Leave(Frame("start_mkdir", i))
    /\ UNCHANGED <<container, backend, docker_client, docker, created, held,
                   everStopped>>

\* stop(), lines 85-92: take the container, clear self._container and
\* self._backend, return when there was none, else hand container.stop to a
\* thread.
StopBegin ==
    /\ CallerFree
    /\ container' = NoContainer
    /\ backend' = NoContainer
    /\ \/ /\ container = NoContainer
          /\ lastCall' = Called("stop", FALSE)
          /\ UNCHANGED frames
       \/ /\ container # NoContainer
          /\ frames' = Enter(Frame("stop_stop", container))
          /\ UNCHANGED lastCall
    /\ UNCHANGED <<docker_client, docker, dirs, created, held, everStopped>>

\* stop() letting the exception of container.stop out
StopStopPropagating(i) ==
    /\ frames[Frame("stop_stop", i)] > 0
    /\ \/ /\ docker[i] # "absent"
          /\ docker' = [docker EXCEPT ![i] = "exited"]
          /\ frames' = Move(Frame("stop_stop", i), Frame("stop_remove", i))
          /\ UNCHANGED <<lastCall, everStopped>>
       \/ /\ frames' = Leave(Frame("stop_stop", i))
          /\ lastCall' = Called("stop", TRUE)
          /\ everStopped' = TRUE
          /\ UNCHANGED docker
    /\ UNCHANGED <<container, backend, docker_client, dirs, created, held>>

\* stop(), lines 91-97: container.stop stopped the container, or raised and
\* the exception is swallowed; container.remove is handed to a thread.
StopStop(i) ==
    /\ frames[Frame("stop_stop", i)] > 0
    /\ \/ /\ docker[i] # "absent"
          /\ docker' = [docker EXCEPT ![i] = "exited"]
       \/ UNCHANGED docker
    /\ frames' = Move(Frame("stop_stop", i), Frame("stop_remove", i))
    /\ UNCHANGED <<container, backend, docker_client, dirs, created, held,
                   everStopped, lastCall>>

\* stop(), lines 96-99: container.remove removed the stopped container (the
\* runtime refuses to remove a running one), or raised and the exception is
\* swallowed; stop() returns.
StopRemove(i) ==
    /\ frames[Frame("stop_remove", i)] > 0
    /\ \/ /\ docker[i] = "exited"
          /\ docker' = [docker EXCEPT ![i] = "absent"]
       \/ UNCHANGED docker
    /\ frames' = Leave(Frame("stop_remove", i))
    /\ everStopped' = TRUE
    /\ lastCall' = Called("stop", FALSE)
    /\ UNCHANGED <<container, backend, docker_client, dirs, created, held>>

\* get_backend(), lines 103-111
GetBackend ==
    /\ \/ /\ container = NoContainer
          /\ lastCall' = Called("get_backend", TRUE)
          /\ UNCHANGED <<backend, held>>
       \/ /\ container # NoContainer
          /\ backend' = IF backend = NoContainer THEN container ELSE backend
          /\ held' = held \cup {backend'}
          /\ lastCall' = Called("get_backend", FALSE)
    /\ UNCHANGED <<container, docker_client, docker, dirs, created, frames,
                   everStopped>>

\* What the runtime can do for an execute() addressed to container id b:
\* the lookup or the exec may always raise; the command runs only in a
\* container that is running.
RuntimeOutcomes(b) ==
    {"lookup_raises"}
    \cup (IF docker[b] # "absent" THEN {"exec_raises"} ELSE {})
    \cup (IF docker[b] = "running" THEN {"ran"} ELSE {})

\* DockerSandboxBackend.execute(command) through a backend the session
\* handed out (the backend keeps its container_id whatever the session does);
\* execute() returns on every path, and the command ran in the container
\* only on the path where the runtime ran it.
ExecuteVia(b) ==
    /\ b \in held
    /\ \E o \in RuntimeOutcomes(b) :
          lastCall' = [op |-> "execute", raised |-> FALSE, ran |-> (o = "ran"),
                       state |-> SessionState]
    /\ UNCHANGED <<container, backend, docker_client, docker, dirs, created,
                   frames, held, everStopped>>

InitSession == SessInit /\ ExecIdle /\ ReduceIdle /\ OffIdle /\ TransferIdle /\ SanIdle /\ CacheIdle /\ SkillIdle
NextSession ==
    \/ StartBegin /\ UNCHANGED <<execVars, redVars, offVars, xferVars, sanVars, cacheVars, skillVars>>
    \/ StartRun /\ UNCHANGED <<execVars, redVars, offVars, xferVars, sanVars, cacheVars, skillVars>>
    \/ \E i \in Ids : StartMkdir(i) /\ UNCHANGED <<execVars, redVars, offVars, xferVars, sanVars, cacheVars, skillVars>>
    \/ StopBegin /\ UNCHANGED <<execVars, redVars, offVars, xferVars, sanVars, cacheVars, skillVars>>
    \/ \E i \in Ids : StopStop(i) /\ UNCHANGED <<execVars, redVars, offVars, xferVars, sanVars, cacheVars, skillVars>>
    \/ \E i \in Ids : StopRemove(i) /\ UNCHANGED <<execVars, redVars, offVars, xferVars, sanVars, cacheVars, skillVars>>
    \/ GetBackend /\ UNCHANGED <<execVars, redVars, offVars, xferVars, sanVars, cacheVars, skillVars>>
    \/ \E b \in Ids : ExecuteVia(b) /\ UNCHANGED <<execVars, redVars, offVars, xferVars, sanVars, cacheVars, skillVars>>
SpecSession == InitSession /\ [][NextSession]_vars

\* the session's own methods alone: start(), stop() and get_backend()
NextLifecycle ==
    \/ StartBegin /\ UNCHANGED <<execVars, redVars, offVars, xferVars, sanVars, cacheVars, skillVars>>
    \/ StartRun /\ UNCHANGED <<execVars, redVars, offVars, xferVars, sanVars, cacheVars, skillVars>>
    \/ \E i \in Ids : StartMkdir(i) /\ UNCHANGED <<execVars, redVars, offVars, xferVars, sanVars, cacheVars, skillVars>>
    \/ StopBegin /\ UNCHANGED <<execVars, redVars, offVars, xferVars, sanVars, cacheVars, skillVars>>
    \/ \E i \in Ids : StopStop(i) /\ UNCHANGED <<execVars, redVars, offVars, xferVars, sanVars, cacheVars, skillVars>>
    \/ \E i \in Ids : StopRemove(i) /\ UNCHANGED <<execVars, redVars, offVars, xferVars, sanVars, cacheVars, skillVars>>
    \/ GetBackend /\ UNCHANGED <<execVars, redVars, offVars, xferVars, sanVars, cacheVars, skillVars>>
SpecLifecycle == InitSession /\ [][NextLifecycle]_vars

\* C1: no command is ever executed in a session that is unstarted or
\* stopped: whenever a command ran in the container through a backend
\* obtained from the session, the session was not unstarted and not stopped
\* (a stop() still in progress is not counted against the claim).
C1_NoExecOutsideRunning ==
    (lastCall.op = "execute" /\ lastCall.ran)
        => lastCall.state \notin {"unstarted", "stopped"}

\* a start() called after a stop() had completed comes back from
\* client.containers.run
LaterStartRuns ==
    frames'[Frame("restart_run", NoContainer)] < frames[Frame("restart_run", NoContainer)]

\* C12: stopped is terminal: once a stop() has completed, no later start()
\* and no later get_backend() makes the session hold a container again or
\* creates another container.
C12_StoppedIsTerminal ==
    [][(LaterStartRuns \/ (everStopped /\ GetBackend))
          => (created' = created /\ container' = container)]_vars

\* C13: start() on a session that already holds a container returns at once:
\* it creates no container, hands nothing to the runtime, runs nothing in
\* the container it holds, and leaves the container and the cached backend
\* (hence the id get_backend() reports) as they are.
C13_StartIdempotent ==
    [][(container # NoContainer /\ StartBegin)
          => /\ lastCall' = Called("start", FALSE)
             /\ UNCHANGED <<container, backend, docker, dirs, created, frames, held>>]_vars

\* a start() returned at once on a session holding container 1: the only
\* start() before it raised at the mkdir, and nothing is in flight
C13_Witness ==
    /\ lastCall = Called("start", FALSE)
    /\ created = 1 /\ container = 1 /\ ~dirs[1] /\ docker[1] = "running"
    /\ InFlight = 0

\* C14: whenever the session is running (get_backend() succeeds, i.e. it
\* holds a container), the workspace directories _meta and shared exist in
\* that container.
C14_WorkspaceDirsExist == container # NoContainer => dirs[container]

\* a stop() comes back from container.stop, from container.remove
StopStopReturns(i) == frames'[Frame("stop_stop", i)] < frames[Frame("stop_stop", i)]
StopRemoveReturns(i) == frames'[Frame("stop_remove", i)] < frames[Frame("stop_remove", i)]

\* C15: teardown never raises: stop() returns normally whatever
\* container.stop and container.remove do; it clears the container handle
\* and the cached backend; container.remove is attempted after every
\* container.stop, failed or not; and stop() on a session holding no
\* container changes nothing.
C15_TeardownNeverRaises ==
    [][/\ lastCall'.op = "stop" => ~lastCall'.raised
       /\ StopBegin
             => /\ container' = NoContainer /\ backend' = NoContainer
                /\ container = NoContainer
                      => /\ lastCall' = Called("stop", FALSE)
                         /\ UNCHANGED <<container, backend, docker, dirs, created, frames>>
       /\ \A i \in Ids :
             StopStopReturns(i) => frames'[Frame("stop_remove", i)]
                                      = frames[Frame("stop_remove", i)] + 1
       /\ \A i \in Ids :
             StopRemoveReturns(i) => lastCall' = Called("stop", FALSE)]_vars

\* a stop() returned although container.stop and container.remove both
\* failed: the session holds nothing and its container is still running
C15_Witness ==
    /\ lastCall = Called("stop", FALSE)
    /\ everStopped
    /\ container = NoContainer /\ backend = NoContainer
    /\ created = 1 /\ docker[1] = "running"
    /\ InFlight = 0

\* no stop() has taken a container away so far
NothingStopped ==
    /\ ~everStopped
    /\ \A i \in Ids : frames[Frame("stop_stop", i)] = 0 /\ frames[Frame("stop_remove", i)] = 0

\* C29: under any interleaving of concurrent start() calls, at most one
\* container is created, and every container the session created is the one
\* it holds, which a later stop() stops and removes and get_backend()
\* addresses.
C29_OneContainerPerSession ==
    NothingStopped => \A i \in 1..created : container = i

\* a start() comes back from the mkdir in container i
StartMkdirReturns(i) == frames'[Frame("start_mkdir", i)] < frames[Frame("start_mkdir", i)]

\* C30: if start() raises, the session is left unstarted: when start()
\* raises after it created container i, the session does not hold that
\* container (get_backend() raises, a later start() creates again) and the
\* container is not left running.
C30_FailedStartLeavesUnstarted ==
    [][\A i \in Ids :
          (StartMkdirReturns(i) /\ lastCall' = Called("start", TRUE))
             => (container' # i /\ docker'[i] # "running")]_vars

InitExec == ExecInit /\ SessIdle /\ ReduceIdle /\ OffIdle /\ TransferIdle /\ SanIdle /\ CacheIdle /\ SkillIdle
NextExec ==
    \/ Execute /\ UNCHANGED <<sessVars, redVars, offVars, xferVars, sanVars, cacheVars, skillVars>>
    \/ AExecute /\ UNCHANGED <<sessVars, redVars, offVars, xferVars, sanVars, cacheVars, skillVars>>
SpecExec == InitExec /\ [][NextExec]_vars

\* the text execute() had in hand before any capping: the decoded command
\* output on the normal path, the error text on the exception paths
PreCapOutput ==
    IF exEnv.outcome = "ran"
    THEN (IF exEnv.is_bytes THEN Decode(exEnv.raw) ELSE Lit(<<"N", "o", "n", "e">>))
    ELSE IF exEnv.outcome = "exec_raises" THEN TCat(EXEC_ERROR_PREFIX, exEnv.msg)
    ELSE TCat(EXEC_ERROR_PREFIX, TCat(LOOKUP_ERROR_PREFIX, exEnv.msg))

ExReturned == exPc \in {"done", "adone"}

\* C10: every ExecuteResponse returned by execute, on every return path, has
\* truncated = TRUE iff the output text before capping was longer than
\* 100 000 characters; when truncated the output is the first 100 000
\* characters followed by the sentinel; the final output never exceeds
\* 100 000 + len(sentinel) characters.
C10_TruncationInvariant ==
    ExReturned =>
        /\ exResp.truncated = (TLen(PreCapOutput) > OUTPUT_CAP)
        /\ exResp.truncated =>
              exResp.output = TCat(TTake(PreCapOutput, OUTPUT_CAP), TRUNCATION_SENTINEL)
        /\ TLen(exResp.output) <= OUTPUT_CAP + TLen(TRUNCATION_SENTINEL)

\* C16: execute never raises: on every path it returns an ExecuteResponse;
\* when the runtime raised (container lookup or exec) the response has
\* exit_code 1 and its output is the error prefix followed by the text of
\* the exception; when the command ran, the exit code is the container's.
C16_FailuresAreData ==
    ExReturned =>
        /\ DOMAIN exResp = {"output", "exit_code", "truncated"}
        /\ exEnv.outcome = "ran" => exResp.exit_code = exEnv.exit_code
        /\ exEnv.outcome # "ran" =>
              /\ exResp.exit_code = 1
              /\ exResp.output = PreCapOutput
              /\ TLen(exResp.output) >= TLen(EXEC_ERROR_PREFIX) + TLen(exEnv.msg)

\* the container lookup raised a non-empty error and execute returned it
C16_Witness ==
    /\ ExReturned
    /\ exEnv.outcome = "lookup_raises"
    /\ TLen(exEnv.msg) > 0
    /\ exResp.exit_code = 1
    /\ TLen(exResp.output) > TLen(exEnv.msg)

\* apply_compaction(messages)
ApplyCompaction ==
    /\ rPc = "call"
    /\ rRet' = apply_compaction(rMsgs, rCfg)
    /\ rPc' = "compacted"
    /\ UNCHANGED <<rMsgs, rCfg, rModel>>

\* apply_summarization(messages)
ApplySummarization ==
    /\ rPc = "call"
    /\ rRet' = apply_summarization(rMsgs, rCfg, rModel)
    /\ rPc' = "summarized"
    /\ UNCHANGED <<rMsgs, rCfg, rModel>>

\* reduce_context(messages)
ReduceContext ==
    /\ rPc = "call"
    /\ rRet' = reduce_context(rMsgs, rCfg, rModel)
    /\ rPc' = "reduced"
    /\ UNCHANGED <<rMsgs, rCfg, rModel>>

\* wrap_model_call(request, handler)
WrapModelCall ==
    /\ rPc = "call"
    /\ rRet' = wrap_model_call(rMsgs, rCfg, rModel)
    /\ rPc' = "wrapped"
    /\ UNCHANGED <<rMsgs, rCfg, rModel>>

InitReduce == ReduceInit /\ ExecIdle /\ SessIdle /\ OffIdle /\ TransferIdle /\ SanIdle /\ CacheIdle /\ SkillIdle
InitTriples == TriplesInit /\ ExecIdle /\ SessIdle /\ OffIdle /\ TransferIdle /\ SanIdle /\ CacheIdle /\ SkillIdle
NextReduce ==
    \/ ApplyCompaction /\ UNCHANGED <<execVars, sessVars, offVars, xferVars, sanVars, cacheVars, skillVars>>
    \/ ApplySummarization /\ UNCHANGED <<execVars, sessVars, offVars, xferVars, sanVars, cacheVars, skillVars>>
    \/ ReduceContext /\ UNCHANGED <<execVars, sessVars, offVars, xferVars, sanVars, cacheVars, skillVars>>
SpecReduce == InitReduce /\ [][NextReduce]_vars
SpecTriples == InitTriples /\ [][NextReduce]_vars

\* the strategy as middleware: the model call is wrapped
NextWrap == WrapModelCall /\ UNCHANGED <<execVars, sessVars, offVars, xferVars, sanVars, cacheVars, skillVars>>
SpecWrap == InitReduce /\ [][NextWrap]_vars

\* C2: monotonic shrink: whenever reduce_context reports was_reduced = TRUE
\* (by compaction or by summarization), reduced_message_count <=
\* original_message_count and estimated_tokens_saved >= 0.
C2_MonotonicShrink ==
    (rPc = "reduced" /\ ~rRet.raised /\ rRet.result.was_reduced) =>
        /\ rRet.result.reduced_message_count <= rRet.result.original_message_count
        /\ rRet.result.estimated_tokens_saved >= 0

\* ---- C3 ----
Min(a, b) == IF a <= b THEN a ELSE b

\* the first Len(out) - r messages of the output hold no ToolResult and no
\* tool-call directive
OldPartStripped(out, r) ==
    \A j \in 1..(Len(out) - r) : out[j].type # "tool" /\ out[j].tool_calls = <<>>

\* the last r messages of the output are the last r messages of the input
RecentIdentical(out, in, r) ==
    /\ Len(out) >= r
    /\ SubSeq(out, Len(out) - r + 1, Len(out)) = SubSeq(in, Len(in) - r + 1, Len(in))

\* C3 (as stated): on a history of Human / AI-with-tool-call / ToolResult
\* triples with compaction_age_threshold = k, apply_compaction leaves the k
\* most recent TRIPLES identical to the input, and ahead of them no
\* ToolResult and no tool-call directive remains.
C3_RecentTriplesIdentical ==
    rPc = "compacted" =>
        LET t == Min(rCfg.compaction_age_threshold, Len(rMsgs) \div 3)
        IN  /\ RecentIdentical(rRet.out, rMsgs, 3 * t)
            /\ OldPartStripped(rRet.out, 3 * t)

\* C3 (amended): on such a history apply_compaction leaves the k most recent
\* MESSAGES (age <= k, age counted in messages) identical to the input, and
\* ahead of them no ToolResult and no tool-call directive remains: every
\* ToolResult of age > k is dropped and every AI message of age > k has lost
\* its tool calls.
C3_RecentMessagesIdentical ==
    rPc = "compacted" =>
        LET r == Min(rCfg.compaction_age_threshold, Len(rMsgs))
        IN  /\ RecentIdentical(rRet.out, rMsgs, r)
            /\ OldPartStripped(rRet.out, r)

\* the stated case: 20 triples, compaction_age_threshold = 10
C3_Witness ==
    /\ rPc = "compacted"
    /\ Len(rMsgs) = 3 * STATED_TRIPLES
    /\ rCfg.compaction_age_threshold = DEFAULT_AGE_THRESHOLD
    /\ rMsgs[2].content.kind = "str" /\ rMsgs[2].content.val # <<>>
    /\ rRet.result.was_reduced
    /\ Len(rRet.out) < Len(rMsgs)

\* ---- C4 ----
UnderThreshold ==
    (TotalChars(rMsgs) \div rCfg.chars_per_token) * rCfg.context_threshold.den
        <= rCfg.context_threshold.num * rCfg.model_context_window

\* C4: reduce_context is a no-op whenever estimated usage <= threshold: it
\* returns the same sequence element for element with was_reduced = FALSE and
\* invokes no summarization model.
C4_NoOpUnderThreshold ==
    (rPc = "reduced" /\ UnderThreshold) =>
        /\ ~rRet.raised
        /\ rRet.out = rMsgs
        /\ ~rRet.result.was_reduced
        /\ rRet.invoked = <<>>

\* usage exactly at the threshold, a model bound, and a history compaction
\* would have shrunk
C4_Witness ==
    /\ rPc = "reduced"
    /\ (TotalChars(rMsgs) \div rCfg.chars_per_token) * rCfg.context_threshold.den
         = rCfg.context_threshold.num * rCfg.model_context_window
    /\ rModel.bound /\ ~rModel.raises
    /\ apply_compaction(rMsgs, rCfg).result.was_reduced
    /\ rRet.out = rMsgs

\* ---- C5 ----
\* o is message i kept, or the text-only AI message that replaces i
Matches(o, i) ==
    \/ o = i
    \/ i.type = "ai" /\ i.tool_calls # <<>> /\ o = AIMessage(StrContent(MsgText(i)), <<>>)

\* out is in, with messages deleted or replaced in place
RECURSIVE Embeds(_, _)
Embeds(out, in) ==
    IF out = <<>> THEN TRUE
    ELSE IF in = <<>> THEN FALSE
    ELSE IF Matches(out[1], in[1]) THEN Embeds(Tail(out), Tail(in))
    ELSE Embeds(out, Tail(in))

\* the messages of the input a return value retains: all of it, or all but
\* the new summary message a summarization puts first
Retained(ret) ==
    IF ret.result.technique_used = "summarization" THEN Tail(ret.out) ELSE ret.out

\* C5: order preservation: the messages retained by apply_compaction and by
\* reduce_context appear in the same relative order as in the input, a
\* rewritten AI message at the place of the message it replaces; nothing is
\* reordered or duplicated.
C5_OrderPreserved ==
    (rPc \in {"compacted", "reduced"} /\ ~rRet.raised) =>
        Embeds(Retained(rRet), rMsgs)

\* compaction dropped a ToolResult between a rewritten AI message and a
\* message kept verbatim
C5_Witness ==
    /\ rPc = "compacted"
    /\ Len(rMsgs) = 3 /\ Len(rRet.out) = 2
    /\ rMsgs[1].type = "ai" /\ rMsgs[1].tool_calls # <<>>
    /\ rMsgs[2].type = "tool"
    /\ rMsgs[3].type = "human"
    /\ rRet.out[1] = AIMessage(StrContent(MsgText(rMsgs[1])), <<>>)
    /\ rRet.out[2] = rMsgs[3]

StillOverAfterCompaction ==
    /\ _should_reduce(rMsgs, rCfg)
    /\ _should_reduce(apply_compaction(rMsgs, rCfg).out, rCfg)

\* C19: when usage is still over the threshold after compaction and no
\* summarization model is bound, reduce_context returns the compacted
\* sequence, not the list it was given, and does not raise.
C19_CompactedWithoutModel ==
    (rPc = "reduced" /\ ~rModel.bound /\ StillOverAfterCompaction)
        => /\ ~rRet.raised
           /\ rRet.invoked = <<>>
           /\ rRet.out = apply_compaction(rMsgs, rCfg).out

\* reduce_context returned, with no model bound, a compacted sequence that
\* differs from its input and is still over the threshold
C19_Witness ==
    /\ rPc = "reduced"
    /\ ~rModel.bound
    /\ StillOverAfterCompaction
    /\ rRet.out # rMsgs
    /\ rRet.out = apply_compaction(rMsgs, rCfg).out

\* C23: wrap_model_call and awrap_model_call hand the handler exactly the
\* sequence reduce_context returned, on every path of reduce_context: the
\* handler sees the original list only when reduce_context returned it
\* unchanged.
C23_HandlerGetsReduced ==
    (rPc = "wrapped" /\ ~rRet.raised)
        => rRet.out = reduce_context(rMsgs, rCfg, rModel).out

\* every ToolMessage of seq comes after an AI message of seq that carries a
\* tool call with its id
Paired(seq) ==
    \A j \in 1..Len(seq) :
        seq[j].type = "tool" =>
            \E i \in 1..(j - 1) :
                /\ seq[i].type = "ai"
                /\ \E k \in 1..Len(seq[i].tool_calls) :
                      seq[i].tool_calls[k].id = seq[j].tool_call_id

\* C24: tool-call pairing survives reduction: if in the input every
\* ToolMessage is preceded by an AIMessage carrying a tool call with its id,
\* the same holds of every sequence apply_compaction, apply_summarization
\* and reduce_context return.
C24_PairingSurvives ==
    (rPc \in {"compacted", "summarized", "reduced"} /\ ~rRet.raised /\ Paired(rMsgs))
        => Paired(rRet.out)

\* ---- C25 ----
\* message i of the input (1-based) has age Len(rMsgs) - (i - 1)
AgeOf(i) == Len(rMsgs) - (i - 1)

NonEmpty(text) == text # <<>>
NonBlank(text) == \E i \in 1..Len(text) : text[i] \notin {" ", "\n", "\t"}

\* what the filter leaves of an old message; blankCounts says whether a
\* text of whitespace only counts as text
Filtered(msg, blankCounts) ==
    IF msg.type \in {"system", "human"} THEN <<msg>>
    ELSE IF msg.type = "ai" /\ msg.tool_calls = <<>> THEN <<msg>>
    ELSE IF msg.type = "ai"
            /\ (IF blankCounts THEN NonEmpty(MsgText(msg)) ELSE NonBlank(MsgText(msg)))
    THEN <<AIMessage(StrContent(MsgText(msg)), <<>>)>>
    ELSE <<>>

\* the input from message i on, filtered message by message: a message
\* younger than the threshold is kept, an older one filtered, and the
\* message of the threshold's age kept or filtered as keepAtThreshold says
RECURSIVE FilterFrom(_, _, _)
FilterFrom(i, blankCounts, keepAtThreshold) ==
    IF i > Len(rMsgs) THEN <<>>
    ELSE (IF AgeOf(i) < rCfg.compaction_age_threshold
             \/ (AgeOf(i) = rCfg.compaction_age_threshold /\ keepAtThreshold)
          THEN <<rMsgs[i]>>
          ELSE Filtered(rMsgs[i], blankCounts))
         \o FilterFrom(i + 1, blankCounts, keepAtThreshold)

\* C25 (as stated): apply_compaction is the per-message filter: a message
\* younger than compaction_age_threshold is kept verbatim; an older System
\* or Human message, and an older AI message without tool calls, is kept
\* verbatim; an older AI message with tool calls is replaced by an AI message
\* holding only its text when the text is non-empty and dropped when it is
\* empty; an older ToolMessage is dropped; was_reduced = (len(output) <
\* len(input)).
C25_FilterNonEmptyText ==
    rPc = "compacted" =>
        /\ \E keepAtThreshold \in BOOLEAN :
              rRet.out = FilterFrom(1, TRUE, keepAtThreshold)
        /\ rRet.result.was_reduced = (Len(rRet.out) < Len(rMsgs))

\* C25 (amended): the same filter, with a message of age at most
\* compaction_age_threshold kept verbatim, and an older AI message with tool
\* calls replaced by its text when the text holds a character that is not
\* whitespace and dropped when the text is empty or only whitespace.
C25_FilterNonBlankText ==
    rPc = "compacted" =>
        /\ rRet.out = FilterFrom(1, FALSE, TRUE)
        /\ rRet.result.was_reduced = (Len(rRet.out) < Len(rMsgs))

\* compaction met two old AI messages with tool calls, the first with blank
\* text (dropped) and the second with text (rewritten), ahead of a
\* ToolMessage kept for its age
C25_Witness ==
    /\ rPc = "compacted"
    /\ Len(rMsgs) = 3 /\ rCfg.compaction_age_threshold = 1
    /\ rMsgs[1].type = "ai" /\ rMsgs[1].tool_calls # <<>> /\ MsgText(rMsgs[1]) = <<" ">>
    /\ rMsgs[2].type = "ai" /\ rMsgs[2].tool_calls # <<>> /\ NonBlank(MsgText(rMsgs[2]))
    /\ rMsgs[3].type = "tool"
    /\ rRet.out = <<AIMessage(StrContent(MsgText(rMsgs[2])), <<>>), rMsgs[3]>>
    /\ rRet.result.was_reduced

\* ---- C26 ----
\* all but the last k messages, and the last k messages, k >= 0
AllButLast(seq, k) == SubSeq(seq, 1, Len(seq) - k)
Last(seq, k) == SubSeq(seq, Len(seq) - k + 1, Len(seq))

\* C26: with a model bound, apply_summarization splits its input into head
\* = all but the last min_messages_to_keep messages and tail = the last
\* min_messages_to_keep messages, for every min_messages_to_keep >= 0; with
\* an empty head it returns its input and does not invoke the model;
\* otherwise it invokes the model exactly once, on the head, and returns one
\* new System message (the marker followed by the digest) followed by the
\* tail.
C26_SummarizationPass ==
    (rPc = "summarized" /\ rModel.bound /\ ~rModel.raises) =>
        LET head == AllButLast(rMsgs, rCfg.min_messages_to_keep)
            tail == Last(rMsgs, rCfg.min_messages_to_keep)
        IN  IF head = <<>>
            THEN rRet.out = rMsgs /\ rRet.invoked = <<>>
            ELSE /\ rRet.invoked = <<head>>
                 /\ rRet.out = <<SystemMessage(StrContent(SUMMARY_MARKER \o rModel.digest))>>
                                \o tail

\* ---- C27 ----
\* C27: within one reduce_context call the summarization model is invoked
\* at most once, only on a sequence that came out of compaction, and only
\* when the input was over the threshold and the compacted sequence still
\* is: never when the input is under budget or when compaction alone brings
\* usage to or below the threshold.
C27_CompactionBeforeSummarization ==
    rPc = "reduced" =>
        /\ Len(rRet.invoked) <= 1
        /\ rRet.invoked # <<>> =>
              /\ rModel.bound
              /\ StillOverAfterCompaction
              /\ rRet.invoked[1]
                    = SliceHead(apply_compaction(rMsgs, rCfg).out, rCfg.min_messages_to_keep)
        /\ ~StillOverAfterCompaction => rRet.invoked = <<>>

\* the model was invoked on what compaction had left of a longer input
C27_Witness ==
    /\ rPc = "reduced"
    /\ rModel.bound /\ ~rModel.raises
    /\ Len(rRet.invoked) = 1
    /\ Len(apply_compaction(rMsgs, rCfg).out) < Len(rMsgs)
    /\ StillOverAfterCompaction
    /\ rRet.result.technique_used = "summarization"

InitOffload == OffInit /\ ExecIdle /\ SessIdle /\ ReduceIdle /\ TransferIdle /\ SanIdle /\ CacheIdle /\ SkillIdle
NextOffload ==
    \/ ProcessToolResult /\ UNCHANGED <<execVars, sessVars, redVars, xferVars, sanVars, cacheVars, skillVars>>
    \/ ApplyUpdate /\ UNCHANGED <<execVars, sessVars, redVars, xferVars, sanVars, cacheVars, skillVars>>
SpecOffload == InitOffload /\ [][NextOffload]_vars

\* the str the last call worked on, and whether its estimate is over the
\* limit: floor(n / c) > l exactly when n >= (l + 1) * c
OContent == ContentStr(oMsg.content)
OverLimit ==
    TLen(OContent) >= (oCfg.token_limit_before_evict + 1) * oCfg.chars_per_token

\* the ToolMessage of what was returned: the message, or the Command's
ReturnedToolMessage ==
    IF oRet.msg.type = "command" THEN oRet.msg.messages[1] ELSE oRet.msg

SameMessage(a, b) ==
    /\ a.type = b.type
    /\ a.type = "tool" =>
          /\ a.tool_call_id = b.tool_call_id
          /\ a.content.kind = b.content.kind
          /\ a.content.val = b.content.val

\* the text holds the path, character for character
Names(text, path) ==
    LET p == Lit(path)
    IN  \E j \in 1..Len(text) :
            /\ text[j].c = p[1].c
            /\ TTake(SubSeq(text, j, Len(text)), TLen(p)) = p

WriteFailed == oRet.writes # <<>> /\ oRet.writes[1].result.error

\* C6: round-trip offload: whenever process_tool_result reports
\* was_offloaded = true, the file at the returned file_path of the same
\* backend (once the update of a returned Command is applied) holds exactly
\* the full content of the tool result, and the replacement message names
\* that file_path.
C6_RoundTrip ==
    (oPc = "process" /\ oRet.result.was_offloaded /\ ~Pending) =>
        /\ oRet.result.file_path.some
        /\ oRet.result.file_path.val \in DOMAIN oFs
        /\ oFs[oRet.result.file_path.val] = OContent
        /\ ReturnedToolMessage.content.kind = "str"
        /\ Names(ReturnedToolMessage.content.val, oRet.result.file_path.val)

\* a result with a special-character id and more lines than the preview
\* shows was offloaded and can be read back
C6_Witness ==
    /\ oPc = "process" /\ oRet.result.was_offloaded /\ ~Pending
    /\ oMsg.tool_call_id = STATED_SPECIAL_ID
    /\ Len(splitlines(OContent)) > oCfg.preview_lines
    /\ oRet.result.file_path.val \in DOMAIN oFs

\* C7: offload threshold boundary: content is an offload candidate iff
\* floor(len(content) / chars_per_token) > token_limit_before_evict,
\* strictly: nothing at or under the limit is written or replaced, and with
\* a backend bound everything over it is written, and offloaded when the
\* write goes through.
C7_ThresholdBoundary ==
    oPc = "process" =>
        /\ oRet.result.was_offloaded => OverLimit
        /\ ~OverLimit => (oRet.writes = <<>> /\ SameMessage(oRet.msg, oMsg))
        /\ (OverLimit /\ oFactory # "none") => Len(oRet.writes) = 1
        /\ (OverLimit /\ oFactory # "none" /\ ~WriteFailed)
              => oRet.result.was_offloaded

\* the stated case: limit 100, 4 characters per token, 404 characters
C7_Witness ==
    /\ oPc = "process" /\ oRet.result.was_offloaded
    /\ oCfg.token_limit_before_evict = STATED_TOKEN_LIMIT
    /\ oCfg.chars_per_token = DEFAULT_CHARS_PER_TOKEN
    /\ TLen(OContent) = (STATED_TOKEN_LIMIT + 1) * DEFAULT_CHARS_PER_TOKEN

\* C8 as stated: a call that returns was_offloaded = true has made exactly
\* one backend.write, and a call that returns was_offloaded = false has
\* made none.
C8_OneWriteIffOffloaded ==
    oPc = "process" =>
        Len(oRet.writes) = (IF oRet.result.was_offloaded THEN 1 ELSE 0)

\* C8 as amended: a call that returns was_offloaded = true has made exactly
\* one backend.write, which went through; a call that returns
\* was_offloaded = false has made none, unless the content was over the
\* limit, a backend was bound and its write reported an error: then it has
\* made that one write.
C8_OneWriteUnlessRefused ==
    oPc = "process" =>
        /\ oRet.result.was_offloaded => (Len(oRet.writes) = 1 /\ ~WriteFailed)
        /\ ~oRet.result.was_offloaded =>
              \/ oRet.writes = <<>>
              \/ Len(oRet.writes) = 1 /\ WriteFailed /\ OverLimit /\ oFactory # "none"

\* a call that was refused its write, and one that wrote
C8_Witness ==
    /\ oPc = "process" /\ ~oRet.result.was_offloaded
    /\ Len(oRet.writes) = 1 /\ WriteFailed
    /\ oCalls = MaxCalls /\ oFs # <<>>

NextIdAfterOffload ==
    /\ oPc = "process" /\ ~Pending
    /\ oRet.result.was_offloaded
    /\ oCalls' = oCalls + 1
    /\ oMsg'.tool_call_id # oMsg.tool_call_id

\* C28: offloaded files are never clobbered: when process_tool_result is
\* called for a tool result with another tool-call id, the file the earlier
\* replacement message points to still holds the earlier tool result's full
\* content, and a new offload goes to another file_path: two distinct
\* tool-call ids never resolve to the same file_path.
C28_NeverClobbered ==
    [][NextIdAfterOffload =>
          /\ oRet.result.file_path.val \in DOMAIN oFs'
          /\ oFs'[oRet.result.file_path.val] = OContent
          /\ oRet'.result.was_offloaded
                => oRet'.result.file_path.val # oRet.result.file_path.val]_vars

InitTransfer == TransferInit /\ ExecIdle /\ SessIdle /\ ReduceIdle /\ OffIdle /\ SanIdle /\ CacheIdle /\ SkillIdle
NextTransfer ==
    \/ DownloadFiles /\ UNCHANGED <<execVars, sessVars, redVars, offVars, sanVars, cacheVars, skillVars>>
    \/ UploadFiles /\ UNCHANGED <<execVars, sessVars, redVars, offVars, sanVars, cacheVars, skillVars>>
SpecTransfer == InitTransfer /\ [][NextTransfer]_vars

\* the runtime served item i as the file system says
Served(i) == xEnv[i].outcome \notin {"lookup_raises", "call_raises"}

\* what the path of item i is in the container
KindAt(i) ==
    LET e == Entry(_resolve_path(xBatch[i].path))
    IN  IF e \in DOMAIN xFs THEN xFs[e].kind ELSE "missing"

\* C11: download_files on a path that is a directory returns error
\* is_directory with no content, and on a path that does not exist returns
\* error file_not_found with no content, for every directory (empty or
\* holding files) and every missing path.
C11_DirectoryAndMissing ==
    xPc = "download" =>
        \A i \in 1..Len(xBatch) :
            /\ (Served(i) /\ KindAt(i) = "dir") =>
                  /\ ~xRet.responses[i].content.some
                  /\ xRet.responses[i].error.some
                  /\ xRet.responses[i].error.val = "is_directory"
            /\ (Served(i) /\ KindAt(i) = "missing") =>
                  /\ ~xRet.responses[i].content.some
                  /\ xRet.responses[i].error.some
                  /\ xRet.responses[i].error.val = "file_not_found"

\* the runtime raised on item i (for an upload, also: its mkdir failed)
RuntimeFailed(i) ==
    IF xPc = "download" THEN ~Served(i) ELSE xEnv[i].outcome # "ok"

FileOperationErrors == {"file_not_found", "permission_denied", "is_directory", "invalid_path"}

\* C17: upload_files and download_files answer per item and never abort a
\* batch: the responses are one per input, in input order, each carrying its
\* input's path; the loop reaches every item, whatever failed before it; an
\* item on which the runtime failed has an error code in its response.
C17_PerItemNeverAborts ==
    xPc \in {"download", "upload"} =>
        /\ Len(xRet.responses) = Len(xBatch)
        /\ xRet.reached = [i \in 1..Len(xBatch) |-> i]
        /\ \A i \in 1..Len(xBatch) :
              /\ xRet.responses[i].path = xBatch[i].path
              /\ xRet.responses[i].error.some
                    => xRet.responses[i].error.val \in FileOperationErrors
              /\ RuntimeFailed(i) => xRet.responses[i].error.some

\* an upload whose first item failed in the runtime and whose second item
\* was still uploaded
C17_Witness ==
    /\ xPc = "upload"
    /\ Len(xBatch) = 2
    /\ xEnv[1].outcome = "call_raises"
    /\ xRet.responses[1].error.some
    /\ Len(xRet.responses) = 2
    /\ ~xRet.responses[2].error.some
    /\ Entry(_resolve_path(xBatch[2].path)) \in DOMAIN xFs
    /\ xFs[Entry(_resolve_path(xBatch[2].path))] = File(xBatch[2].content)

InitSanitize == SanInit /\ ExecIdle /\ SessIdle /\ ReduceIdle /\ OffIdle /\ TransferIdle /\ CacheIdle /\ SkillIdle
NextSanitize == Sanitize /\ UNCHANGED <<execVars, sessVars, redVars, offVars, xferVars, cacheVars, skillVars>>
SpecSanitize == InitSanitize /\ [][NextSanitize]_vars

\* the characters of [A-Za-z0-9_-]
SafeChars == AsciiAlnum \cup {"-", "_"}

\* C20: _sanitize_tool_call_id returns a string of the same length as the id
\* that holds only characters of [A-Za-z0-9_-]: a character of that set is
\* kept, every other character is replaced by "_"; an id made of such
\* characters only is returned unchanged.
C20_SanitizedIsSafe ==
    sPc = "sanitized" =>
        /\ Len(sOut) = Len(sId)
        /\ \A i \in 1..Len(sOut) :
              /\ sOut[i] \in SafeChars
              /\ sId[i] \in SafeChars => sOut[i] = sId[i]
              /\ sId[i] \notin SafeChars => sOut[i] = "_"
        /\ (\A i \in 1..Len(sId) : sId[i] \in SafeChars) => sOut = sId

InitCaching == CacheInit /\ ExecIdle /\ SessIdle /\ ReduceIdle /\ OffIdle /\ TransferIdle /\ SanIdle /\ SkillIdle
NextCaching == ApplyCaching /\ UNCHANGED <<execVars, sessVars, redVars, offVars, xferVars, sanVars, skillVars>>
SpecCaching == InitCaching /\ [][NextCaching]_vars

\* the provider is Anthropic, direct or as the sub-provider of OpenRouter
IsAnthropic ==
    \/ cProv.provider = "anthropic"
    \/ cProv.provider = "openrouter" /\ cProv.named = "anthropic"

\* message i of the list returned carries a cache_control marker
Marked(i) ==
    /\ cRet.messages[i].content.kind = "list"
    /\ \E b \in 1..Len(cRet.messages[i].content.val) :
          cRet.messages[i].content.val[b].cache_control # None

\* the value given to cached_content_type when the provider needs no marker
AutoCachedTypes ==
    {<<"auto_cached_by_", p>> : p \in ProviderType}
    \cup {<<"auto_cached_by_", "openrouter", "/", s>> : s \in OpenRouterSubProvider}

\* what C21 says of the call: a marker is attached only under Anthropic and
\* only to a system message of at least min_cacheable_tokens estimated
\* tokens, every other message is left as it was; under any other provider
\* the list is returned unmodified, with was_cached false and
\* cached_content_type "auto_cached_by_<provider>"
MarkerGating ==
    /\ Len(cRet.messages) = Len(cMsgs)
    /\ \A i \in 1..Len(cMsgs) :
          IF Marked(i)
          THEN /\ IsAnthropic
               /\ cMsgs[i].type = "system" /\ cRet.messages[i].type = "system"
               /\ Cache_estimate_tokens(cMsgs[i].content) >= cCfg.min_cacheable_tokens
               /\ cRet.result.was_cached
          ELSE cRet.messages[i] = cMsgs[i]
    /\ ~IsAnthropic
          => /\ cRet.messages = cMsgs
             /\ ~cRet.result.was_cached
             /\ cRet.result.cached_content_type \in AutoCachedTypes
             /\ cRet.result.cached_content_type[2] = cProv.provider

\* C21 as stated: cache-marker gating: apply_caching attaches a
\* cache_control marker to a system message of at least min_cacheable_tokens
\* estimated tokens only when the provider is Anthropic (direct, or
\* OpenRouter with the Anthropic sub-provider); for every other provider
\* classification it returns the message list unmodified with was_cached
\* false and cached_content_type "auto_cached_by_<provider>".
C21_GatingOnEveryList == cPc = "cached" => MarkerGating

\* C21, amended: the gating holds on every non-empty message list; an empty
\* list is returned as it is with was_cached false and no
\* cached_content_type, whatever the provider.
C21_CacheMarkerGating ==
    cPc = "cached" =>
        IF cMsgs = <<>>
        THEN cRet = [messages |-> <<>>, result |-> CachingResult(FALSE, NoContentType, 0)]
        ELSE MarkerGating

\* through OpenRouter with an Anthropic model name, the system message of
\* exactly min_cacheable_tokens estimated tokens that follows a human
\* message got the marker
C21_Witness ==
    /\ cPc = "cached"
    /\ cProv = [provider |-> "openrouter", named |-> "anthropic"]
    /\ cCfg.min_cacheable_tokens = DEFAULT_MIN_CACHEABLE_TOKENS
    /\ Len(cMsgs) = 2
    /\ cMsgs[1].type = "human"
    /\ cMsgs[2] = CacheMsg("system", StrContent(Rep("x",
                      CACHE_CHARS_PER_TOKEN * DEFAULT_MIN_CACHEABLE_TOKENS)))
    /\ Marked(2)
    /\ cRet.result = CachingResult(TRUE, <<"system_prompt">>, DEFAULT_MIN_CACHEABLE_TOKENS)

InitSkills == SkillInit /\ ExecIdle /\ SessIdle /\ ReduceIdle /\ OffIdle /\ TransferIdle /\ SanIdle /\ CacheIdle
NextSkills == ListSkills /\ UNCHANGED <<execVars, sessVars, redVars, offVars, xferVars, sanVars, cacheVars>>
SpecSkills == InitSkills /\ [][NextSkills]_vars

\* the name of the directory holding the SKILL.md at path
DirectoryOf(path) == path[2]

ManifestOf(path) ==
    LET listing == IF path[1] = "user" THEN kUser ELSE kProject
    IN  listing[CHOOSE i \in 1..Len(listing) : listing[i].dir = path[2]]

====
